---- MODULE Spec2Model ----
(***************************************************************************)
(* A model of the MBTiles download service of src/api/app.py: the request  *)
(* handler download_mbtiles, the background thread it starts               *)
(* (background_download running create_mbtiles_manually), the status       *)
(* handler get_progress, the process-wide progress_data mapping and the    *)
(* archive files under /tmp; of src/scripts/app_working.py, which adds the *)
(* handler cleanup_session; and of src/scripts/flask_server.py.            *)
(*                                                                         *)
(* Latitudes, longitudes and buffers are in units of 1/10000 degree, so    *)
(* 12.9716 is 129716 and the buffer 0.005 is 50.  The clock time.time() is *)
(* in ticks of 1/TicksPerSecond second; a time that is stored is stored in *)
(* ticks too.                                                              *)
(***************************************************************************)
EXTENDS Integers, Sequences, FiniteSets, TLC

\* ------------------------------------------------------------------ bounds
MaxRequests == 2    \* download requests received
MaxTime == 4        \* the clock runs from StartTime to tick MaxTime
HashRange == 2      \* values of hash(...) % 10000 that can occur
MaxTmsZoom == 6     \* largest zoom level the row conversion is applied to at every row
MaxQueries == 1     \* status queries that are being handled at a time
MaxCleanups == 2    \* cleanups that are being handled at a time

\* ------------------------------------------------------------------- units
\* time.time() is a float.  The clock of the model has the values that are a
\* whole number of half seconds, which floats represent exactly, so that the
\* differences of two readings are exact as well.
TicksPerSecond == 2

\* int(time.time()) of a reading t.
Seconds(t) == t \div TicksPerSecond

\* The reading of the clock when the server starts to take requests: 1.5 s,
\* half a second before the next whole second.
StartTime == 2 * TicksPerSecond - 1

\* ------------------------------------------------------- program constants
MaxLatitude == 900000          \* 90 degrees
MaxLongitude == 1800000        \* 180 degrees
MinZoomAllowed == 1
MaxZoomAllowed == 21
MinBuffer == 10                \* 0.001 degrees
MaxBuffer == 1000              \* 0.1 degrees
DefaultMaxZoom == 22

None == "None"      \* None in a field that holds a message
NoName == << >>     \* None in a field that holds a path or a name
NoTilesMessage == "No tiles were successfully downloaded"
UnknownErrorMessage == "Unknown error occurred"
TableExistsMessage == "table metadata already exists"
NoSuchFileMessage == "[Errno 2] No such file or directory"
ReadOnlyMessage == "attempt to write a readonly database"
DiskErrorMessage == "disk I/O error"

\* -------------------------------------------------------------- arithmetic
Pow2(k) == 2 ^ k

\* Python's int() on a float: truncation toward zero.
TruncDiv(a, b) == IF a >= 0 THEN a \div b ELSE -((-a) \div b)

\* ------------------------------------------------------------------ inputs
\* The JSON bodies posted to /api/download_mbtiles.  filename is the value
\* after .strip(), as a sequence of characters; has_lat is FALSE when the body
\* has no "lat".
Body(has_lat, lat, lon, buffer, minz, maxz, fname) ==
    [has_lat |-> has_lat, lat |-> lat, lon |-> lon, buffer |-> buffer,
     min_zoom |-> minz, max_zoom |-> maxz, filename |-> fname]

Input(lat, lon, buffer, minz, maxz, fname) ==
    Body(TRUE, lat, lon, buffer, minz, maxz, fname)

ValidInputs ==
    { Input(129716, 775946, 50, 10, 11, <<"a">>),
      Input(900000, 1800000, 50, 1, 2, << >>) }

InvalidInputs ==
    { Input(900010, 775946, 50, 10, 11, << >>),
      Input(-900010, 775946, 50, 10, 11, << >>),
      Input(129716, 1800010, 50, 10, 11, << >>),
      Input(129716, -1800010, 50, 10, 11, << >>),
      Input(129716, 775946, 50, 0, 11, << >>),
      Input(129716, 775946, 50, 10, DefaultMaxZoom, << >>),
      Input(129716, 775946, 50, 11, 10, << >>),
      Input(129716, 775946, 9, 10, 11, << >>),
      Input(129716, 775946, 1001, 10, 11, << >>) }

MalformedInputs == { Body(FALSE, 0, 775946, 50, 10, 11, << >>) }

Inputs == ValidInputs \cup InvalidInputs \cup MalformedInputs

\* ------------------------------------------------------- Coordinate Mapper
\* int((lon_deg + 180.0) / 360.0 * 2^21): the column at zoom 21.  With lon in
\* 1/10000 degree this is (lon + 1800000) * 2^21 / 3600000, which is
\* (lon + 1800000) * 2^14 / 28125, evaluated without leaving 32 bits.
XTile21(lon) ==
    LET l == lon + MaxLongitude
        a == IF l >= 0 THEN l ELSE -l
        v == (a \div 28125) * 16384 + ((a % 28125) * 16384) \div 28125
    IN  IF l >= 0 THEN v ELSE -v

\* int((1.0 - asinh(tan(lat_rad)) / pi) / 2.0 * 2^21): the row at zoom 21, for
\* the latitudes the inputs give (lat - buffer and lat + buffer).
YTile21(lat) ==
    CASE lat = -900060 -> -2241539
      [] lat = -899960 -> 4474024
      [] lat = 128715 -> 972955
      [] lat = 129666 -> 972386
      [] lat = 129707 -> 972362
      [] lat = 129725 -> 972351
      [] lat = 129766 -> 972327
      [] lat = 130717 -> 971758
      [] lat = 889950 -> -532289
      [] lat = 890050 -> -535627
      [] lat = 899950 -> -2302392
      [] lat = 899960 -> -2376872
      [] lat = 900050 -> 4399544
      [] lat = 900060 -> 4338691

\* n = 2.0 ** zoom is a power of two, so multiplying by it is exact and
\* int(f * 2^zoom) is int(f * 2^21) truncated by 2^(21 - zoom).
deg2num(lat_deg, lon_deg, zoom) ==
    << TruncDiv(XTile21(lon_deg), Pow2(MaxZoomAllowed - zoom)),
       TruncDiv(YTile21(lat_deg), Pow2(MaxZoomAllowed - zoom)) >>

\* The tile range of one zoom level: min_x, max_y from (min_lat, min_lon) and
\* max_x, min_y from (max_lat, max_lon).
TileBounds(min_lat, max_lat, min_lon, max_lon, zoom) ==
    LET lo == deg2num(min_lat, min_lon, zoom)
        hi == deg2num(max_lat, max_lon, zoom)
    IN  [min_x |-> lo[1], max_y |-> lo[2], max_x |-> hi[1], min_y |-> hi[2]]

TilesThisZoom(min_lat, max_lat, min_lon, max_lon, zoom) ==
    LET b == TileBounds(min_lat, max_lat, min_lon, max_lon, zoom)
    IN  (b.max_x - b.min_x + 1) * (b.max_y - b.min_y + 1)

RECURSIVE SumTiles(_, _, _, _, _, _)
SumTiles(min_lat, max_lat, min_lon, max_lon, zoom, max_zoom) ==
    IF zoom > max_zoom THEN 0
    ELSE TilesThisZoom(min_lat, max_lat, min_lon, max_lon, zoom)
         + SumTiles(min_lat, max_lat, min_lon, max_lon, zoom + 1, max_zoom)

calculate_total_tiles(min_lat, max_lat, min_lon, max_lon, min_zoom, max_zoom) ==
    [total |-> SumTiles(min_lat, max_lat, min_lon, max_lon, min_zoom, max_zoom),
     tiles_per_zoom |->
        [z \in min_zoom..max_zoom |->
            TilesThisZoom(min_lat, max_lat, min_lon, max_lon, z)]]

\* A variant of TmsRow that counts the rows from 2^zoom, not 2^zoom - 1.
TmsRowOffByOne(zoom, y) == Pow2(zoom) - y

\* tms_y = (2**zoom - 1) - y
TmsRow(zoom, y) == (Pow2(zoom) - 1) - y

\* ------------------------------------------------------------ file names
SafeChars ==
    { "a", "b", "c", "d", "e", "f", "g", "h", "i", "j", "k", "l", "m",
      "n", "o", "p", "q", "r", "s", "t", "u", "v", "w", "x", "y", "z",
      "A", "B", "C", "D", "E", "F", "G", "H", "I", "J", "K", "L", "M",
      "N", "O", "P", "Q", "R", "S", "T", "U", "V", "W", "X", "Y", "Z",
      "0", "1", "2", "3", "4", "5", "6", "7", "8", "9", "_", "-" }

\* re.sub(r'[^a-zA-Z0-9_-]', '_', s)
ReplaceUnsafe(s) == [i \in 1..Len(s) |-> IF s[i] \in SafeChars THEN s[i] ELSE "_"]

\* re.sub(r'_+', '_', s)
RECURSIVE CollapseUnderscores(_)
CollapseUnderscores(s) ==
    IF Len(s) <= 1 THEN s
    ELSE IF s[1] = "_" /\ s[2] = "_" THEN CollapseUnderscores(Tail(s))
    ELSE <<s[1]>> \o CollapseUnderscores(Tail(s))

\* s.strip('_')
RECURSIVE StripUnderscores(_)
StripUnderscores(s) ==
    IF s = << >> THEN s
    ELSE IF s[1] = "_" THEN StripUnderscores(Tail(s))
    ELSE IF s[Len(s)] = "_" THEN StripUnderscores(SubSeq(s, 1, Len(s) - 1))
    ELSE s

safe_filename(custom_filename) ==
    StripUnderscores(CollapseUnderscores(ReplaceUnsafe(custom_filename)))

\* str(n) of a natural number, as a sequence of characters.
RECURSIVE Decimal(_)
Decimal(n) ==
    LET digit == <<"0", "1", "2", "3", "4", "5", "6", "7", "8", "9">>[(n % 10) + 1]
    IN  IF n < 10 THEN <<digit>> ELSE Decimal(n \div 10) \o <<digit>>

\* The path create_mbtiles_manually writes to, lines 95-101; t is
\* int(time.time()).  The name between the directory and the extension is a
\* sequence of characters, so that the name "output_1" and the default name of
\* second 1 are one path.
OutputFile(custom_filename, t) ==
    IF custom_filename # << >>
    THEN <<"/tmp/">> \o safe_filename(custom_filename) \o <<".mbtiles">>
    ELSE <<"/tmp/">> \o <<"o", "u", "t", "p", "u", "t", "_">> \o Decimal(t)
         \o <<".mbtiles">>

\* custom_filename + ".mbtiles" if custom_filename else output_file
DisplayName(custom_filename, output_file) ==
    IF custom_filename # << >> THEN custom_filename \o <<".mbtiles">> ELSE output_file

\* ---------------------------------------------------------- input checking
ValidCoordinates(lat, lon) ==
    /\ -MaxLatitude <= lat /\ lat <= MaxLatitude
    /\ -MaxLongitude <= lon /\ lon <= MaxLongitude

\* A variant of ValidZoomLevels without the test min_zoom <= max_zoom.
ValidZoomLevelsUnordered(min_zoom, max_zoom) ==
    /\ MinZoomAllowed <= min_zoom /\ min_zoom <= MaxZoomAllowed
    /\ MinZoomAllowed <= max_zoom /\ max_zoom <= MaxZoomAllowed

\* Line 305.
ValidZoomLevels(min_zoom, max_zoom) ==
    /\ MinZoomAllowed <= min_zoom /\ min_zoom <= MaxZoomAllowed
    /\ MinZoomAllowed <= max_zoom /\ max_zoom <= MaxZoomAllowed
    /\ min_zoom <= max_zoom

ValidBuffer(buffer) == MinBuffer <= buffer /\ buffer <= MaxBuffer

\* float(data.get("lat")) raises on a missing value.
Parses(inp) == inp.has_lat

\* ------------------------------------------------------------ session ids
\* The key that is hashed: f'{lat}_{lon}_{buffer}'.
ParamKey(inp) == <<inp.lat, inp.lon, inp.buffer>>

\* f"session_{int(time.time())}_{hash(...) % 10000}"
SessionId(t, h) == <<"session", t, h>>

\* --------------------------------------------------------- progress records
\* The value the defaultdict makes for a missing key.
DefaultRecord ==
    [total_tiles |-> 0, downloaded_tiles |-> 0, current_zoom |-> 0,
     status |-> "idle", error |-> None, start_time |-> 0,
     output_file |-> NoName, display_name |-> NoName, file_size_bytes |-> 0,
     method |-> "manual", last_update |-> 0, tiles_per_zoom |-> << >>]

\* progress_data[session_id]: reading a missing key inserts the default.
GetItem(pd, sid) ==
    IF sid \in DOMAIN pd THEN pd ELSE pd @@ (sid :> DefaultRecord)

\* pd[session_id][field] = value, for a key that pd has.
SetField(pd, sid, field, value) ==
    [pd EXCEPT ![sid][field] = value]

\* ----------------------------------------------------------------- archives
\* What sqlite3.connect creates for a path that does not exist.
EmptyArchive ==
    [schema |-> FALSE, tiles_table |-> FALSE, tile_index |-> FALSE,
     metadata |-> << >>, tiles |-> << >>]

NoTransaction == [metadata |-> << >>, tiles |-> << >>]

MetadataRows(inp) ==
    << <<"name", "Satellite Imagery">>,
       <<"type", "baselayer">>,
       <<"version", "1.0">>,
       <<"description", "Satellite imagery tiles">>,
       <<"format", "png">>,
       <<"bounds", <<inp.lon - inp.buffer, inp.lat - inp.buffer,
                     inp.lon + inp.buffer, inp.lat + inp.buffer>> >>,
       <<"minzoom", inp.min_zoom>>,
       <<"maxzoom", inp.max_zoom>>,
       <<"center", <<inp.lon, inp.lat, inp.min_zoom>> >>,
       <<"attribution", "Satellite imagery (c) ArcGIS World Imagery">> >>

\* A row of the tiles table (line 112); the table is the sequence of its rows.
TileRow(key, data) ==
    [zoom_level |-> key[1], tile_column |-> key[2], tile_row |-> key[3],
     tile_data |-> data]

\* The columns of the unique index tile_index (line 115).
TileKey(row) == <<row.zoom_level, row.tile_column, row.tile_row>>

\* A variant of Upsert: a plain INSERT into a table without the unique index.
InsertOnly(tiles, key, data) == Append(tiles, TileRow(key, data))

\* INSERT OR REPLACE under the unique index: the rows that have the key are
\* deleted, then the new row is inserted.
Upsert(tiles, key, data) ==
    LET Other(row) == TileKey(row) # key
    IN  Append(SelectSeq(tiles, Other), TileRow(key, data))

\* conn.commit(): the writes of the transaction reach the archive, in order.
RECURSIVE MergeTiles(_, _)
MergeTiles(tiles, pending) ==
    IF pending = << >> THEN tiles
    ELSE MergeTiles(Upsert(tiles, TileKey(Head(pending)), Head(pending).tile_data),
                    Tail(pending))

\* A variant of Committed for a schema step that leaves the metadata rows out
\* of the transaction: only tile rows reach the archive.
CommittedTilesOnly(archive, txn) ==
    [archive EXCEPT !.tiles = MergeTiles(@, txn.tiles)]

Committed(archive, txn) ==
    [archive EXCEPT !.metadata = @ \o txn.metadata,
                    !.tiles = MergeTiles(@, txn.tiles)]

\* os.path.getsize, in tables, indexes and rows.
FileSize(archive) ==
    (IF archive.schema THEN 1 ELSE 0) + (IF archive.tiles_table THEN 1 ELSE 0)
    + (IF archive.tile_index THEN 1 ELSE 0)
    + Len(archive.metadata) + Len(archive.tiles)

\* ------------------------------------------------------------ tile fetches
PngTile == <<137, 80, 78, 71, 13>>
JpegTile == <<255, 216, 255, 224>>
PngSignature == <<137, 80, 78, 71>>
JpegSignature == <<255, 216, 255>>

\* What requests.get can give back; Timeout stands for a raised exception.
Timeout == [status_code |-> 0, content |-> << >>, raised |-> TRUE]
Response(code, content) == [status_code |-> code, content |-> content, raised |-> FALSE]
Responses ==
    { Response(200, PngTile), Response(200, JpegTile),
      Response(200, <<60, 104, 116>>), Response(200, <<137, 80, 78>>),
      Response(200, << >>), Response(404, <<60, 104, 116>>),
      Response(404, PngTile), Timeout }

\* The variable response before requests.get has returned.
NoResponse == [status_code |-> 0, content |-> << >>, raised |-> FALSE]

StartsWith(content, prefix) ==
    /\ Len(content) >= Len(prefix)
    /\ SubSeq(content, 1, Len(prefix)) = prefix

\* The test of lines 164-168: a 200 with a body that starts as a PNG or a JPEG.
Accepted(resp) ==
    /\ resp.status_code = 200 /\ Len(resp.content) > 0
    /\ (StartsWith(resp.content, PngSignature) \/ StartsWith(resp.content, JpegSignature))

\* ------------------------------------------------------------------- state
VARIABLES
    now,            \* the clock: time.time(), in ticks
    hashv,          \* hash(key) % 10000 of the keys hashed so far in this process
    requests,       \* the download requests received, with their responses
    progress_data,  \* session id -> progress record
    files,          \* path -> inode: the directory entries under /tmp
    inodes,         \* inode -> archive contents
    pc,             \* where each request's background thread stands
    loc,            \* the locals of each request's background thread
    snap,           \* what the last step answered to a status query, if it was one
    query,          \* the status queries and the cleanups that are being handled
    active_downloads,   \* flask_server.py: download id -> entry of a running download
    download_results,   \* flask_server.py: download id -> result of a finished download
    started,            \* flask_server.py: the download requests received, with their responses
    worker              \* flask_server.py: where each request's background thread stands

\* The state of src/scripts/flask_server.py, which the handlers and threads of
\* src/api/app.py leave alone.
flask_server == <<active_downloads, download_results, started, worker>>

vars == <<now, hashv, requests, progress_data, files, inodes, pc, loc, snap, query, flask_server>>

Slots == 1..MaxRequests

InitLoc ==
    [output_file |-> NoName, conn |-> 0, txn |-> NoTransaction,
     zoom |-> 0, x |-> 0, y |-> 0,
     tile_count |-> 0, successful_tiles |-> 0, failed_tiles |-> 0,
     returned_file |-> NoName, error |-> None, response |-> NoResponse,
     missing |-> FALSE, held |-> FALSE, start_time |-> 0, last_update |-> 0,
     file_size |-> 0]

NoSnap == [code |-> 0, sid |-> << >>, data |-> [error |-> None]]

Handlers == 1..MaxQueries

\* The handlers of cleanup_session of app_working.py.
Cleaners == (MaxQueries + 1)..(MaxQueries + MaxCleanups)

\* A handler of get_progress that is not running.  A running one has the id
\* it was asked about, from line 255 the copy of the record, and from line 264
\* the reading of the clock that line took.
NoQuery ==
    [pc |-> "none", sid |-> << >>, missing |-> FALSE, data |-> DefaultRecord,
     clock |-> 0]

\* A step that is not one of a status handler: it answers no status query and
\* moves no handler.
NotAQuery == snap' = NoSnap /\ UNCHANGED query

Init ==
    /\ now = StartTime
    /\ hashv = << >>
    /\ requests = << >>
    /\ progress_data = << >>
    /\ files = << >>
    /\ inodes = << >>
    /\ pc = [r \in Slots |-> "none"]
    /\ loc = [r \in Slots |-> InitLoc]
    /\ snap = NoSnap
    /\ query = [h \in Handlers \cup Cleaners |-> NoQuery]
    /\ active_downloads = << >>
    /\ download_results = << >>
    /\ started = << >>
    /\ worker = [r \in Slots |-> "none"]

\* The clock advances.
Tick ==
    /\ now < MaxTime
    /\ now' = now + 1
    /\ UNCHANGED <<hashv, requests, progress_data, files, inodes, pc, loc, flask_server>>
    /\ NotAQuery

\* ---------------------------------------------------------- download_mbtiles
\* The first check of lines 300-310 that fails, or None.
ValidationError(inp) ==
    IF ~ValidCoordinates(inp.lat, inp.lon) THEN "Invalid coordinates"
    ELSE IF ~ValidZoomLevels(inp.min_zoom, inp.max_zoom) THEN "Invalid zoom levels"
    ELSE IF ~ValidBuffer(inp.buffer) THEN "Buffer must be between 0.001 and 0.1 degrees"
    ELSE None

\* hash(key) % 10000 is fixed for the life of the process and unknown before
\* it starts (str hashes are seeded per process).  Only the equality of two
\* values matters, so the values are named in the order they first occur: a
\* key hashed for the first time gets a value an earlier key has, or the next
\* unused one.  The value is chosen when a session is started for the key.
UsedHashes == {hashv[k] : k \in DOMAIN hashv}

HashChoices(key) ==
    IF key \in DOMAIN hashv THEN {hashv[key]}
    ELSE UsedHashes \cup {h \in 0..(HashRange - 1) : h = Cardinality(UsedHashes)}

Hashed(key, h) ==
    IF key \in DOMAIN hashv THEN hashv ELSE hashv @@ (key :> h)

\* A variant of EstimatedTiles that counts the first zoom level only.
EstimatedTilesFirstZoom(inp) ==
    calculate_total_tiles(inp.lat - inp.buffer, inp.lat + inp.buffer,
                          inp.lon - inp.buffer, inp.lon + inp.buffer,
                          inp.min_zoom, inp.min_zoom).total

\* Lines 317-319.
EstimatedTiles(inp) ==
    calculate_total_tiles(inp.lat - inp.buffer, inp.lat + inp.buffer,
                          inp.lon - inp.buffer, inp.lon + inp.buffer,
                          inp.min_zoom, inp.max_zoom).total

Reply(inp, code, sid, estimate, error) ==
    [input |-> inp, code |-> code, session_id |-> sid,
     estimated_tiles |-> estimate, error |-> error]

\* POST /api/download_mbtiles with body inp.
download_mbtiles(inp) ==
    /\ Len(requests) < MaxRequests
    /\ LET r == Len(requests) + 1 IN
       IF ~Parses(inp)
       THEN /\ requests' = Append(requests, Reply(inp, 500, << >>, 0, "Unexpected error"))
            /\ UNCHANGED <<hashv, pc>>
       ELSE IF ValidationError(inp) # None
       THEN /\ requests' = Append(requests, Reply(inp, 400, << >>, 0, ValidationError(inp)))
            /\ UNCHANGED <<hashv, pc>>
       ELSE \E h \in HashChoices(ParamKey(inp)) :
            /\ hashv' = Hashed(ParamKey(inp), h)
            /\ requests' = Append(requests,
                   Reply(inp, 202, SessionId(Seconds(now), h), EstimatedTiles(inp), None))
            /\ pc' = [pc EXCEPT ![r] = "t_init"]
    /\ UNCHANGED <<now, progress_data, files, inodes, loc, flask_server>>
    /\ NotAQuery

\* ------------------------------------------- the background thread's locals
Inp(r) == requests[r].input
Sid(r) == requests[r].session_id
MinLat(r) == Inp(r).lat - Inp(r).buffer
MaxLat(r) == Inp(r).lat + Inp(r).buffer
MinLon(r) == Inp(r).lon - Inp(r).buffer
MaxLon(r) == Inp(r).lon + Inp(r).buffer

Bounds(r, zoom) == TileBounds(MinLat(r), MaxLat(r), MinLon(r), MaxLon(r), zoom)

Goto(r, label) == pc' = [pc EXCEPT ![r] = label]

\* os.path.exists(path)
Exists(path) == path \in DOMAIN files

\* os.remove(path)
Removed(path) == [p \in DOMAIN files \ {path} |-> files[p]]

\* ---------------------------------------------------- create_mbtiles_manually
\* The statements of a thread are steps of their own wherever another thread,
\* a handler or the clock can come between two of them: reads of the clock,
\* reads and writes of progress_data, and calls on the file system and on the
\* archive are one step each.  In progress_data[session_id]['last_update'] =
\* time.time() the clock is read first and the record is looked up and written
\* after it: the reading waits in the local last_update.

\* Where a thread is about to evaluate progress_data[session_id].
RecordLabels ==
    {"t_init", "t_zoom", "t_zoom_last", "t_progress", "t_touch", "t_failed",
     "f_status", "f_error", "c_status", "c_last", "x_status", "x_error", "x_last",
     "b_lookup", "b_error"}

\* progress_data[session_id] finds the key, or the thread is in the default
\* factory of a lookup that did not find it.
Found(r) == Sid(r) \in DOMAIN progress_data \/ loc[r].missing

\* Lines 23-36: a lookup of a missing key calls the default factory.  The
\* thread can be suspended in it, while other threads use the dictionary.
default_factory(r) ==
    /\ pc[r] \in RecordLabels
    /\ ~Found(r)
    /\ loc' = [loc EXCEPT ![r].missing = TRUE]
    /\ UNCHANGED <<now, hashv, requests, progress_data, files, inodes, pc, flask_server>>
    /\ NotAQuery

\* progress_data once the lookup of thread r has returned: when it went
\* through the default factory, the new record is stored under the key, over
\* whatever another thread has stored there since.
Looked(r) ==
    IF loc[r].missing
    THEN [k \in DOMAIN progress_data \cup {Sid(r)} |->
            IF k = Sid(r) THEN DefaultRecord ELSE progress_data[k]]
    ELSE progress_data

\* The locals of all threads once the lookup of thread r has returned and
\* given r the locals own: a record stored by the lookup takes the place of
\* the one that other threads of the session got from their lookups.
AfterLookup(r, own) ==
    [q \in Slots |->
        IF q = r THEN [own EXCEPT !.missing = FALSE]
        ELSE IF loc[r].missing /\ pc[q] # "none" /\ Sid(q) = Sid(r)
        THEN [loc[q] EXCEPT !.held = FALSE]
        ELSE loc[q]]

\* progress_data[session_id][field] = value, on one line.
Assign(r, field, value) ==
    /\ Found(r)
    /\ progress_data' = SetField(Looked(r), Sid(r), field, value)

\* Line 81, first part: progress_data[session_id] is evaluated and its
\* method update is bound; the thread holds that record from here.
t_init(r) ==
    /\ pc[r] = "t_init"
    /\ Found(r)
    /\ progress_data' = Looked(r)
    /\ loc' = AfterLookup(r, [loc[r] EXCEPT !.held = TRUE])
    /\ Goto(r, "t_start")
    /\ UNCHANGED <<now, hashv, requests, files, inodes, flask_server>>
    /\ NotAQuery

\* Line 87: the first time.time() of the dict display.
t_start(r) ==
    /\ pc[r] = "t_start"
    /\ loc' = [loc EXCEPT ![r].start_time = now]
    /\ Goto(r, "t_last")
    /\ UNCHANGED <<now, hashv, requests, progress_data, files, inodes, flask_server>>
    /\ NotAQuery

\* Line 88: the second time.time() of the dict display.
t_last(r) ==
    /\ pc[r] = "t_last"
    /\ loc' = [loc EXCEPT ![r].last_update = now]
    /\ Goto(r, "t_update")
    /\ UNCHANGED <<now, hashv, requests, progress_data, files, inodes, flask_server>>
    /\ NotAQuery

\* The fields .update() writes at lines 81-91.
Started(rec, totals, min_zoom, start_time, last_update) ==
    [rec EXCEPT !.total_tiles = totals.total,
                !.downloaded_tiles = 0,
                !.current_zoom = min_zoom,
                !.status = "downloading",
                !.error = None,
                !.start_time = start_time,
                !.last_update = last_update,
                !.tiles_per_zoom = totals.tiles_per_zoom,
                !.method = "manual"]

\* The locals once .update() has been called on the record held.
Released(l) == [l EXCEPT !.held = FALSE, !.start_time = 0, !.last_update = 0]

\* Lines 81-91, last part: .update({...}) is called on the record held.
t_update(r) ==
    /\ pc[r] = "t_update"
    /\ progress_data' =
         IF loc[r].held
         THEN [progress_data EXCEPT ![Sid(r)] =
                 Started(@, calculate_total_tiles(MinLat(r), MaxLat(r), MinLon(r), MaxLon(r),
                                                  Inp(r).min_zoom, Inp(r).max_zoom),
                         Inp(r).min_zoom, loc[r].start_time, loc[r].last_update)]
         ELSE progress_data
    /\ loc' = [loc EXCEPT ![r] = Released(@)]
    /\ Goto(r, "t_path")
    /\ UNCHANGED <<now, hashv, requests, files, inodes, flask_server>>
    /\ NotAQuery

\* Lines 94-101: the output path, which reads the clock when no name was given.
t_path(r) ==
    /\ pc[r] = "t_path"
    /\ loc' = [loc EXCEPT ![r].output_file = OutputFile(Inp(r).filename, Seconds(now))]
    /\ Goto(r, "t_connect")
    /\ UNCHANGED <<now, hashv, requests, progress_data, files, inodes, flask_server>>
    /\ NotAQuery

\* Lines 104-105: sqlite3.connect opens the file at that path or creates an
\* empty one.
t_connect(r) ==
    /\ pc[r] = "t_connect"
    /\ LET path == loc[r].output_file IN
       IF Exists(path)
       THEN /\ loc' = [loc EXCEPT ![r].conn = files[path]]
            /\ UNCHANGED <<files, inodes>>
       ELSE /\ loc' = [loc EXCEPT ![r].conn = r]
            /\ files' = files @@ (path :> r)
            /\ inodes' = inodes @@ (r :> EmptyArchive)
    /\ Goto(r, "t_schema")
    /\ UNCHANGED <<now, hashv, requests, progress_data, flask_server>>
    /\ NotAQuery

\* The file of the connection is still the one at the output path.  A write
\* that has to open the rollback journal checks it, and raises otherwise.
Linked(r) ==
    Exists(loc[r].output_file) /\ files[loc[r].output_file] = loc[r].conn

\* A write in an open transaction that has written already goes to the journal
\* that is open; any other write has to open it.
Writable(r) == loc[r].txn # NoTransaction \/ Linked(r)

\* An exception is raised outside the per-tile handler: the handler of line
\* 227 is entered with it.
Fault(r, message) ==
    /\ loc' = [loc EXCEPT ![r].error = message]
    /\ Goto(r, "x_status")

\* Line 108: CREATE TABLE metadata, which takes effect at once.  It raises when
\* the archive has the table, and when the empty file has been removed and
\* there is no file at its path; on an empty file sqlite does not check that
\* the file at the path is the one it has open, so with another file at the
\* path the table is made in the file that was removed.
t_schema(r) ==
    /\ pc[r] = "t_schema"
    /\ IF inodes[loc[r].conn].schema
       THEN Fault(r, TableExistsMessage) /\ UNCHANGED inodes
       ELSE IF ~Exists(loc[r].output_file)
       THEN Fault(r, DiskErrorMessage) /\ UNCHANGED inodes
       ELSE /\ inodes' = [inodes EXCEPT ![loc[r].conn].schema = TRUE]
            /\ Goto(r, "t_tiles")
            /\ UNCHANGED loc
    /\ UNCHANGED <<now, hashv, requests, progress_data, files, flask_server>>
    /\ NotAQuery

\* Line 111: CREATE TABLE tiles.
t_tiles(r) ==
    /\ pc[r] = "t_tiles"
    /\ IF ~Linked(r)
       THEN Fault(r, ReadOnlyMessage) /\ UNCHANGED inodes
       ELSE /\ inodes' = [inodes EXCEPT ![loc[r].conn].tiles_table = TRUE]
            /\ Goto(r, "t_index")
            /\ UNCHANGED loc
    /\ UNCHANGED <<now, hashv, requests, progress_data, files, flask_server>>
    /\ NotAQuery

\* Line 114: CREATE UNIQUE INDEX tile_index.
t_index(r) ==
    /\ pc[r] = "t_index"
    /\ IF ~Linked(r)
       THEN Fault(r, ReadOnlyMessage) /\ UNCHANGED inodes
       ELSE /\ inodes' = [inodes EXCEPT ![loc[r].conn].tile_index = TRUE]
            /\ Goto(r, "t_metadata")
            /\ UNCHANGED loc
    /\ UNCHANGED <<now, hashv, requests, progress_data, files, flask_server>>
    /\ NotAQuery

\* Lines 119-136: the metadata rows, which open the transaction, and the
\* counters.
t_metadata(r) ==
    /\ pc[r] = "t_metadata"
    /\ IF ~Linked(r)
       THEN Fault(r, ReadOnlyMessage)
       ELSE /\ loc' = [loc EXCEPT ![r].txn.metadata = MetadataRows(Inp(r)),
                                  ![r].tile_count = 0,
                                  ![r].successful_tiles = 0,
                                  ![r].failed_tiles = 0,
                                  ![r].zoom = Inp(r).min_zoom]
            /\ Goto(r, "t_zoom")
    /\ UNCHANGED <<now, hashv, requests, progress_data, files, inodes, flask_server>>
    /\ NotAQuery

\* Lines 139-141: a zoom level begins (min_zoom <= max_zoom was checked by the
\* handler, so the loop is entered).
t_zoom(r) ==
    /\ pc[r] = "t_zoom"
    /\ Assign(r, "current_zoom", loc[r].zoom)
    /\ loc' = AfterLookup(r, loc[r])
    /\ Goto(r, "t_zoom_clock")
    /\ UNCHANGED <<now, hashv, requests, files, inodes, flask_server>>
    /\ NotAQuery

\* The locals once the reading of the clock has been stored.
ClockStored(l) == [l EXCEPT !.last_update = 0]

\* Line 142, right-hand side: time.time().
t_zoom_clock(r) ==
    /\ pc[r] = "t_zoom_clock"
    /\ loc' = [loc EXCEPT ![r].last_update = now]
    /\ Goto(r, "t_zoom_last")
    /\ UNCHANGED <<now, hashv, requests, progress_data, files, inodes, flask_server>>
    /\ NotAQuery

\* Lines 142-155: the reading is stored in last_update, then the tile ranges
\* of the zoom level.  Without a column the loops are not entered; with
\* columns and without a row the outer loop goes through the columns.
t_zoom_last(r) ==
    /\ pc[r] = "t_zoom_last"
    /\ Assign(r, "last_update", loc[r].last_update)
    /\ LET b == Bounds(r, loc[r].zoom)
           l == ClockStored(loc[r])
       IN  IF b.min_x > b.max_x
           THEN /\ Goto(r, "t_commit")
                /\ loc' = AfterLookup(r, l)
           ELSE IF b.min_y > b.max_y
           THEN /\ Goto(r, "t_commit")
                /\ loc' = AfterLookup(r, [l EXCEPT !.x = b.max_x])
           ELSE /\ loc' = AfterLookup(r, [l EXCEPT !.x = b.min_x, !.y = b.min_y])
                /\ Goto(r, "t_fetch")
    /\ UNCHANGED <<now, hashv, requests, files, inodes, flask_server>>
    /\ NotAQuery

\* A variant of NextTile that leaves the inner loop after every tile, as a
\* break would: the rest of the column is skipped.
NextTileBreaks(r, l) ==
    LET b == Bounds(r, l.zoom) IN
    IF l.x < b.max_x THEN [l EXCEPT !.x = l.x + 1, !.y = b.min_y]
    ELSE [l EXCEPT !.y = b.max_y]

\* The for loops of lines 154-155 move on: the next row, the next column, or
\* the end of the zoom level.
NextTile(r, l) ==
    LET b == Bounds(r, l.zoom) IN
    IF l.y < b.max_y THEN [l EXCEPT !.y = l.y + 1]
    ELSE IF l.x < b.max_x THEN [l EXCEPT !.x = l.x + 1, !.y = b.min_y]
    ELSE l

\* A variant of LastTile under which conn.commit() is inside the loop over the
\* columns: the zoom level is left at the end of a column.
LastTileOfColumn(r, l) ==
    LET b == Bounds(r, l.zoom) IN l.y >= b.max_y

LastTile(r, l) ==
    LET b == Bounds(r, l.zoom) IN l.y >= b.max_y /\ l.x >= b.max_x

\* A variant of Raised in which the except block counts the failure but not
\* the attempt.
RaisedUncounted(l) == [l EXCEPT !.failed_tiles = @ + 1]

\* Lines 199-202: what a raised exception does to the thread's locals.
Raised(l) == [l EXCEPT !.failed_tiles = @ + 1, !.tile_count = @ + 1]

\* The INSERT of line 173 raises: the response is an image and the archive
\* cannot be written.
InsertRaises(resp, writable) == Accepted(resp) /\ ~writable

\* Lines 161-186: what one response does to the thread's locals.  An image is
\* stored and counted; when the INSERT raises, the except block of line 199
\* counts it as failed.
Fetched(l, resp, writable) ==
    IF InsertRaises(resp, writable)
    THEN [Raised(l) EXCEPT !.response = resp]
    ELSE IF Accepted(resp)
    THEN [l EXCEPT !.txn.tiles = Upsert(@, <<l.zoom, l.x, TmsRow(l.zoom, l.y)>>, resp.content),
                   !.successful_tiles = @ + 1,
                   !.tile_count = @ + 1,
                   !.response = resp]
    ELSE [l EXCEPT !.failed_tiles = @ + 1,
                   !.tile_count = @ + 1,
                   !.response = resp]

\* Lines 156-186 and 199-202: one tile is requested.  A response is checked,
\* stored when it is an image, and counted; an exception of requests.get or of
\* the INSERT is counted by the except block.
t_fetch(r) ==
    /\ pc[r] = "t_fetch"
    /\ \E resp \in Responses :
         IF resp.raised
         THEN /\ loc' = [loc EXCEPT ![r] = Raised(loc[r])]
              /\ Goto(r, "t_failed")
         ELSE /\ loc' = [loc EXCEPT ![r] = Fetched(loc[r], resp, Writable(r))]
              /\ Goto(r, IF InsertRaises(resp, Writable(r)) THEN "t_failed" ELSE "t_progress")
    /\ UNCHANGED <<now, hashv, requests, progress_data, files, inodes, flask_server>>
    /\ NotAQuery

\* Line 190: the counter is published.  The response is not read again before
\* line 161 assigns the next one.
t_progress(r) ==
    /\ pc[r] = "t_progress"
    /\ Assign(r, "downloaded_tiles", loc[r].tile_count)
    /\ loc' = AfterLookup(r, [loc[r] EXCEPT !.response = NoResponse])
    /\ Goto(r, "t_clock")
    /\ UNCHANGED <<now, hashv, requests, files, inodes, flask_server>>
    /\ NotAQuery

\* Line 191, right-hand side: time.time().
t_clock(r) ==
    /\ pc[r] = "t_clock"
    /\ loc' = [loc EXCEPT ![r].last_update = now]
    /\ Goto(r, "t_touch")
    /\ UNCHANGED <<now, hashv, requests, progress_data, files, inodes, flask_server>>
    /\ NotAQuery

\* Line 191: the reading is stored in last_update.
t_touch(r) ==
    /\ pc[r] = "t_touch"
    /\ Assign(r, "last_update", loc[r].last_update)
    /\ loc' = AfterLookup(r, ClockStored(loc[r]))
    /\ Goto(r, "t_sleep")
    /\ UNCHANGED <<now, hashv, requests, files, inodes, flask_server>>
    /\ NotAQuery

\* Line 197: time.sleep(0.05), then the loops move on.
t_sleep(r) ==
    /\ pc[r] = "t_sleep"
    /\ loc' = [loc EXCEPT ![r] = NextTile(r, loc[r])]
    /\ Goto(r, IF LastTile(r, loc[r]) THEN "t_commit" ELSE "t_fetch")
    /\ UNCHANGED <<now, hashv, requests, progress_data, files, inodes, flask_server>>
    /\ NotAQuery

\* Lines 203-205, in the except block: the counter is published and the loops
\* move on at once.
t_failed(r) ==
    /\ pc[r] = "t_failed"
    /\ Assign(r, "downloaded_tiles", loc[r].tile_count)
    /\ loc' = AfterLookup(r, NextTile(r, [loc[r] EXCEPT !.response = NoResponse]))
    /\ Goto(r, IF LastTile(r, loc[r]) THEN "t_commit" ELSE "t_fetch")
    /\ UNCHANGED <<now, hashv, requests, files, inodes, flask_server>>
    /\ NotAQuery

\* Line 207: conn.commit() at the end of a zoom level.  After the last zoom
\* level, lines 210-212: conn.close() and the test on successful_tiles.
t_commit(r) ==
    /\ pc[r] = "t_commit"
    /\ inodes' = [inodes EXCEPT ![loc[r].conn] = Committed(@, loc[r].txn)]
    /\ IF loc[r].zoom < Inp(r).max_zoom
       THEN /\ loc' = [loc EXCEPT ![r].txn = NoTransaction, ![r].zoom = @ + 1]
            /\ Goto(r, "t_zoom")
       ELSE /\ loc' = [loc EXCEPT ![r].txn = NoTransaction]
            /\ Goto(r, IF loc[r].successful_tiles = 0 THEN "f_status" ELSE "c_status")
    /\ UNCHANGED <<now, hashv, requests, progress_data, files, flask_server>>
    /\ NotAQuery

\* Line 214.
f_status(r) ==
    /\ pc[r] = "f_status"
    /\ Assign(r, "status", "error")
    /\ loc' = AfterLookup(r, loc[r])
    /\ Goto(r, "f_error")
    /\ UNCHANGED <<now, hashv, requests, files, inodes, flask_server>>
    /\ NotAQuery

\* Line 215.
f_error(r) ==
    /\ pc[r] = "f_error"
    /\ Assign(r, "error", NoTilesMessage)
    /\ loc' = AfterLookup(r, loc[r])
    /\ Goto(r, "f_exists")
    /\ UNCHANGED <<now, hashv, requests, files, inodes, flask_server>>
    /\ NotAQuery

\* The locals once create_mbtiles_manually has returned (None, message).
ReturnedError(l, message) == [l EXCEPT !.returned_file = NoName, !.error = message]

\* Line 216: os.path.exists(output_file); without the file, line 218 returns
\* (None, message).
f_exists(r) ==
    /\ pc[r] = "f_exists"
    /\ IF Exists(loc[r].output_file)
       THEN /\ Goto(r, "f_remove")
            /\ UNCHANGED loc
       ELSE /\ loc' = [loc EXCEPT ![r] = ReturnedError(@, NoTilesMessage)]
            /\ Goto(r, "b_error")
    /\ UNCHANGED <<now, hashv, requests, progress_data, files, inodes, flask_server>>
    /\ NotAQuery

\* Lines 217-218: os.remove(output_file), and (None, message) is returned.
\* os.remove raises when the file has gone since line 216 saw it.
f_remove(r) ==
    /\ pc[r] = "f_remove"
    /\ IF Exists(loc[r].output_file)
       THEN /\ files' = Removed(loc[r].output_file)
            /\ loc' = [loc EXCEPT ![r] = ReturnedError(@, NoTilesMessage)]
            /\ Goto(r, "b_error")
       ELSE /\ Fault(r, NoSuchFileMessage)
            /\ UNCHANGED files
    /\ UNCHANGED <<now, hashv, requests, progress_data, inodes, flask_server>>
    /\ NotAQuery

\* Line 221.
c_status(r) ==
    /\ pc[r] = "c_status"
    /\ Assign(r, "status", "completed")
    /\ loc' = AfterLookup(r, loc[r])
    /\ Goto(r, "c_clock")
    /\ UNCHANGED <<now, hashv, requests, files, inodes, flask_server>>
    /\ NotAQuery

\* Line 222, right-hand side: time.time().
c_clock(r) ==
    /\ pc[r] = "c_clock"
    /\ loc' = [loc EXCEPT ![r].last_update = now]
    /\ Goto(r, "c_last")
    /\ UNCHANGED <<now, hashv, requests, progress_data, files, inodes, flask_server>>
    /\ NotAQuery

\* Lines 222-225: the reading is stored in last_update, and
\* (output_file, None) is returned.
c_last(r) ==
    /\ pc[r] = "c_last"
    /\ Assign(r, "last_update", loc[r].last_update)
    /\ loc' = AfterLookup(r, [ClockStored(loc[r]) EXCEPT
                                 !.returned_file = loc[r].output_file,
                                 !.error = None])
    /\ Goto(r, "b_exists")
    /\ UNCHANGED <<now, hashv, requests, files, inodes, flask_server>>
    /\ NotAQuery

\* A variant of x_status without the handlers of lines 227 and 347: the
\* exception ends the thread where it was raised.
x_status_unhandled(r) ==
    /\ pc[r] = "x_status"
    /\ Goto(r, "crashed")
    /\ UNCHANGED <<now, hashv, requests, progress_data, files, inodes, loc, flask_server>>
    /\ NotAQuery

\* Line 230, in the handler of line 227.
x_status(r) ==
    /\ pc[r] = "x_status"
    /\ Assign(r, "status", "error")
    /\ loc' = AfterLookup(r, loc[r])
    /\ Goto(r, "x_error")
    /\ UNCHANGED <<now, hashv, requests, files, inodes, flask_server>>
    /\ NotAQuery

\* Line 231.
x_error(r) ==
    /\ pc[r] = "x_error"
    /\ Assign(r, "error", loc[r].error)
    /\ loc' = AfterLookup(r, loc[r])
    /\ Goto(r, "x_clock")
    /\ UNCHANGED <<now, hashv, requests, files, inodes, flask_server>>
    /\ NotAQuery

\* Line 232, right-hand side: time.time().
x_clock(r) ==
    /\ pc[r] = "x_clock"
    /\ loc' = [loc EXCEPT ![r].last_update = now]
    /\ Goto(r, "x_last")
    /\ UNCHANGED <<now, hashv, requests, progress_data, files, inodes, flask_server>>
    /\ NotAQuery

\* Line 232: the reading is stored in last_update.
x_last(r) ==
    /\ pc[r] = "x_last"
    /\ Assign(r, "last_update", loc[r].last_update)
    /\ loc' = AfterLookup(r, ClockStored(loc[r]))
    /\ Goto(r, "x_exists")
    /\ UNCHANGED <<now, hashv, requests, files, inodes, flask_server>>
    /\ NotAQuery

\* Lines 233-235: conn.close(), which drops the open transaction, and
\* os.path.exists(output_file); without the file, line 237 returns
\* (None, message).
x_exists(r) ==
    /\ pc[r] = "x_exists"
    /\ loc' = [loc EXCEPT ![r].txn = NoTransaction, ![r].returned_file = NoName]
    /\ Goto(r, IF Exists(loc[r].output_file) THEN "x_remove" ELSE "b_error")
    /\ UNCHANGED <<now, hashv, requests, progress_data, files, inodes, flask_server>>
    /\ NotAQuery

\* Lines 236-237: os.remove(output_file), and (None, message) is returned.
\* When the file has gone since line 235 saw it, os.remove raises out of
\* create_mbtiles_manually, and the handler of line 347 gets the exception.
x_remove(r) ==
    /\ pc[r] = "x_remove"
    /\ IF Exists(loc[r].output_file)
       THEN /\ files' = Removed(loc[r].output_file)
            /\ UNCHANGED loc
       ELSE /\ loc' = [loc EXCEPT ![r].error = NoSuchFileMessage]
            /\ UNCHANGED files
    /\ Goto(r, "b_error")
    /\ UNCHANGED <<now, hashv, requests, progress_data, inodes, flask_server>>
    /\ NotAQuery

\* -------------------------------------------------------- background_download
\* Line 328: output_file and os.path.exists(output_file).
b_exists(r) ==
    /\ pc[r] = "b_exists"
    /\ Goto(r, IF loc[r].returned_file # NoName /\ Exists(loc[r].returned_file)
               THEN "b_size" ELSE "b_error")
    /\ UNCHANGED <<now, hashv, requests, progress_data, files, inodes, loc, flask_server>>
    /\ NotAQuery

\* Lines 329-330: os.path.getsize(output_file), which raises when the file has
\* gone since line 328 saw it; the handler of line 347 gets the exception.
b_size(r) ==
    /\ pc[r] = "b_size"
    /\ LET path == loc[r].returned_file IN
       IF Exists(path)
       THEN /\ loc' = [loc EXCEPT ![r].file_size = FileSize(inodes[files[path]])]
            /\ Goto(r, "b_lookup")
       ELSE /\ loc' = [loc EXCEPT ![r].error = NoSuchFileMessage]
            /\ Goto(r, "b_error")
    /\ UNCHANGED <<now, hashv, requests, progress_data, files, inodes, flask_server>>
    /\ NotAQuery

\* Line 331, first part: progress_data[session_id] is evaluated.
b_lookup(r) ==
    /\ pc[r] = "b_lookup"
    /\ Found(r)
    /\ progress_data' = Looked(r)
    /\ loc' = AfterLookup(r, [loc[r] EXCEPT !.held = TRUE])
    /\ Goto(r, "b_last")
    /\ UNCHANGED <<now, hashv, requests, files, inodes, flask_server>>
    /\ NotAQuery

\* Line 336: time.time() of the dict display.
b_last(r) ==
    /\ pc[r] = "b_last"
    /\ loc' = [loc EXCEPT ![r].last_update = now]
    /\ Goto(r, "b_completed")
    /\ UNCHANGED <<now, hashv, requests, progress_data, files, inodes, flask_server>>
    /\ NotAQuery

\* The fields .update() writes at lines 331-337.
Completed(rec, path, name, size, t) ==
    [rec EXCEPT !.status = "completed", !.output_file = path,
                !.display_name = name, !.file_size_bytes = size, !.last_update = t]

\* Lines 331-338, last part: .update({...}) is called on the record held.
b_completed(r) ==
    /\ pc[r] = "b_completed"
    /\ progress_data' =
         IF loc[r].held
         THEN [progress_data EXCEPT ![Sid(r)] =
                 Completed(@, loc[r].returned_file,
                           DisplayName(Inp(r).filename, loc[r].returned_file),
                           loc[r].file_size, loc[r].last_update)]
         ELSE progress_data
    /\ loc' = [loc EXCEPT ![r] = [Released(@) EXCEPT !.file_size = 0]]
    /\ Goto(r, "done")
    /\ UNCHANGED <<now, hashv, requests, files, inodes, flask_server>>
    /\ NotAQuery

\* Line 340, first part, and in the handler of line 347, line 348:
\* progress_data[session_id] is evaluated.
b_error(r) ==
    /\ pc[r] = "b_error"
    /\ Found(r)
    /\ progress_data' = Looked(r)
    /\ loc' = AfterLookup(r, [loc[r] EXCEPT !.held = TRUE])
    /\ Goto(r, "b_error_last")
    /\ UNCHANGED <<now, hashv, requests, files, inodes, flask_server>>
    /\ NotAQuery

\* Lines 343 and 351: time.time() of the dict display.
b_error_last(r) ==
    /\ pc[r] = "b_error_last"
    /\ loc' = [loc EXCEPT ![r].last_update = now]
    /\ Goto(r, "b_failed")
    /\ UNCHANGED <<now, hashv, requests, progress_data, files, inodes, flask_server>>
    /\ NotAQuery

\* The fields .update() writes at lines 340-344 and 348-352.
Failed(rec, message, t) ==
    [rec EXCEPT !.status = "error", !.error = message, !.last_update = t]

\* Lines 340-345 and 348-353, last part: .update({...}) is called on the
\* record held, with error or 'Unknown error occurred', or with str(e).
b_failed(r) ==
    /\ pc[r] = "b_failed"
    /\ LET message == IF loc[r].error # None THEN loc[r].error ELSE UnknownErrorMessage
       IN  progress_data' =
             IF loc[r].held
             THEN [progress_data EXCEPT ![Sid(r)] = Failed(@, message, loc[r].last_update)]
             ELSE progress_data
    /\ loc' = [loc EXCEPT ![r] = Released(@)]
    /\ Goto(r, "done")
    /\ UNCHANGED <<now, hashv, requests, files, inodes, flask_server>>
    /\ NotAQuery

\* --------------------------------------------------------------- get_progress
\* round() of the exact quotient a / b for b > 0: the nearest integer, ties to
\* even.
RoundHalfEven(a, b) ==
    LET q == a \div b
        rest == a - q * b
    IN  IF 2 * rest < b THEN q
        ELSE IF 2 * rest > b THEN q + 1
        ELSE IF q % 2 = 0 THEN q ELSE q + 1

\* ------------------------------------------------- binary floating point
\* The metrics of get_progress are computed in IEEE 754 binary64.  A natural
\* number too large for an integer of the model is the sequence of its binary
\* digits, lowest first; a float is m * 2^e with m of at most 53 digits.
RECURSIVE Bits(_)
Bits(n) == IF n = 0 THEN << >> ELSE <<n % 2>> \o Bits(n \div 2)

RECURSIVE Value(_)
Value(b) == IF b = << >> THEN 0 ELSE Head(b) + 2 * Value(Tail(b))

Bit(b, i) == IF 1 <= i /\ i <= Len(b) THEN b[i] ELSE 0

\* Without the zeros at the high end.
Trim(b) ==
    LET ones == {i \in 1..Len(b) : b[i] = 1}
    IN  IF ones = {} THEN << >>
        ELSE SubSeq(b, 1, CHOOSE i \in ones : \A j \in ones : j <= i)

ShiftLeft(b, k) == IF b = << >> THEN b ELSE [i \in 1..k |-> 0] \o b

ShiftRight(b, k) == SubSeq(b, k + 1, Len(b))

Less(a, b) ==
    \E i \in 1..Len(b) :
        /\ Bit(a, i) < b[i]
        /\ \A j \in (i + 1)..(IF Len(a) > Len(b) THEN Len(a) ELSE Len(b)) :
              Bit(a, j) = Bit(b, j)

Increment(b) ==
    LET zeros == {i \in 1..(Len(b) + 1) : Bit(b, i) = 0}
        p == CHOOSE i \in zeros : \A j \in zeros : i <= j
    IN  [i \in 1..(IF p > Len(b) THEN p ELSE Len(b)) |->
            IF i < p THEN 0 ELSE IF i = p THEN 1 ELSE b[i]]

\* The digits lo..hi of a - b and the borrow out of them, by halves.
RECURSIVE Minus(_, _, _, _, _)
Minus(a, b, lo, hi, borrow) ==
    IF lo > hi THEN [d |-> << >>, c |-> borrow]
    ELSE IF lo = hi
    THEN LET v == a[lo] - Bit(b, lo) - borrow
         IN  [d |-> <<(v + 2) % 2>>, c |-> IF v < 0 THEN 1 ELSE 0]
    ELSE LET mid == (lo + hi) \div 2
             lower == Minus(a, b, lo, mid, borrow)
             upper == Minus(a, b, mid + 1, hi, lower.c)
         IN  [d |-> lower.d \o upper.d, c |-> upper.c]

\* The digits lo..hi of b * k and the carry out of them, for a small k.
RECURSIVE Times(_, _, _, _, _)
Times(b, k, lo, hi, carry) ==
    IF lo > hi THEN [d |-> << >>, c |-> carry]
    ELSE IF lo = hi
    THEN LET v == b[lo] * k + carry
         IN  [d |-> <<v % 2>>, c |-> v \div 2]
    ELSE LET mid == (lo + hi) \div 2
             lower == Times(b, k, lo, mid, carry)
             upper == Times(b, k, mid + 1, hi, lower.c)
         IN  [d |-> lower.d \o upper.d, c |-> upper.c]

Product(b, k) ==
    LET t == Times(b, k, 1, Len(b), 0) IN Trim(t.d \o Bits(t.c))

\* Long division of a by b > 0: the digits hi..lo of a are brought down to
\* the remainder rest, one at a time; q has the digits lo..hi of the quotient.
RECURSIVE Divide(_, _, _, _, _)
Divide(a, b, lo, hi, rest) ==
    IF lo > hi THEN [q |-> << >>, r |-> rest]
    ELSE IF lo = hi
    THEN LET down == Trim(<<a[lo]>> \o rest)
         IN  IF Less(down, b) THEN [q |-> <<0>>, r |-> down]
             ELSE [q |-> <<1>>, r |-> Trim(Minus(down, b, 1, Len(down), 0).d)]
    ELSE LET mid == (lo + hi) \div 2
             upper == Divide(a, b, mid + 1, hi, rest)
         IN  IF Len(upper.q) = hi - mid
             THEN LET lower == Divide(a, b, lo, mid, upper.r)
                  IN  [q |-> lower.q \o upper.q, r |-> lower.r]
             ELSE upper

\* The float nearest to q * 2^e, ties to even; inexact says that q was cut
\* from a larger number.
RoundToFloat(q, inexact, e) ==
    LET k == Len(q) - 53 IN
    IF k <= 0 THEN [m |-> q, e |-> e]
    ELSE LET kept == ShiftRight(q, k)
             rest == inexact \/ \E i \in 1..(k - 1) : q[i] = 1
             up == q[k] = 1 /\ (rest \/ kept[1] = 1)
             m == IF up THEN Increment(kept) ELSE kept
         IN  IF Len(m) > 53 THEN [m |-> ShiftRight(m, 1), e |-> e + k + 1]
             ELSE [m |-> m, e |-> e + k]

\* a / b in floats, for naturals a > 0 and b > 0 in binary digits.
FloatQuotient(a, b) ==
    LET s == 55 + Len(b) - Len(a)
        num == ShiftLeft(a, s)
        d == Divide(num, b, 1, Len(num), << >>)
    IN  RoundToFloat(Trim(d.q), d.r # << >>, -s)

\* f * k in floats, for a small natural k.
FloatTimes(f, k) == RoundToFloat(Product(f.m, k), FALSE, f.e)

\* n / f in floats, for a natural n > 0 and a float f > 0.
FloatInto(n, f) ==
    LET g == FloatQuotient(Bits(n), Trim(f.m)) IN [m |-> g.m, e |-> g.e - f.e]

\* round(f * k) for a float f >= 0 and k = 1, and round(f, 1) in tenths for
\* k = 10: the nearest integer to the exact value, ties to even.
RoundFloat(f, k) ==
    LET n == Product(f.m, k) IN
    IF f.e >= 0 THEN Value(ShiftLeft(n, f.e))
    ELSE LET q == ShiftRight(n, -f.e)
             rest == \E i \in 1..(-f.e - 1) : Bit(n, i) = 1
             up == Bit(n, -f.e) = 1 /\ (rest \/ Bit(q, 1) = 1)
         IN  Value(q) + (IF up THEN 1 ELSE 0)

\* a / b lies halfway between two integers, for a >= 0 and b > 0.
Tie(a, b) == 2 * (a % b) = b

RECURSIVE OddPart(_)
\* The odd part of n > 0.
OddPart(n) == IF n % 2 = 0 THEN OddPart(n \div 2) ELSE n

\* a / b is a whole number of 2^-k for some k: a float holds it exactly (the
\* numbers of a record are far below 2^53).
Dyadic(a, b) == a % OddPart(b) = 0

\* The metrics are rounded from floats that were computed in one or two
\* operations, each within 2^-53 of the exact value, relatively.  An exact value
\* that is no tie is farther from the nearest tie than that, so its float is
\* rounded as it is itself.  At a tie the float is the exact value when the
\* quotient inside is dyadic, and is followed digit by digit otherwise.

\* Line 259: round((downloaded_tiles / total_tiles) * 100, 1), in tenths, for
\* total_tiles > 0.
ProgressPercent(downloaded, total) ==
    IF Tie(1000 * downloaded, total) /\ ~Dyadic(downloaded, total)
    THEN RoundFloat(FloatTimes(FloatQuotient(Bits(downloaded), Bits(total)), 100), 10)
    ELSE RoundHalfEven(1000 * downloaded, total)

\* Lines 265 and 275: round(downloaded_tiles / elapsed_time, 1), in tenths, for
\* an elapsed time of ticks > 0.
TilesPerSecond(downloaded, ticks) ==
    IF Tie(10 * TicksPerSecond * downloaded, ticks)
       /\ ~Dyadic(TicksPerSecond * downloaded, ticks)
    THEN RoundFloat(FloatQuotient(Bits(TicksPerSecond * downloaded), Bits(ticks)), 10)
    ELSE RoundHalfEven(10 * TicksPerSecond * downloaded, ticks)

\* Lines 265-270: round(remaining_tiles / tiles_per_second), for an elapsed
\* time of ticks > 0; remaining_tiles is negative when more tiles were
\* attempted than total_tiles says.
EstimatedRemaining(remaining, downloaded, ticks) ==
    LET n == IF remaining < 0 THEN -remaining ELSE remaining
        whole ==
            IF Tie(n * ticks, TicksPerSecond * downloaded)
               /\ ~Dyadic(TicksPerSecond * downloaded, ticks)
            THEN RoundFloat(FloatInto(n, FloatQuotient(Bits(TicksPerSecond * downloaded),
                                                       Bits(ticks))), 1)
            ELSE RoundHalfEven(n * ticks, TicksPerSecond * downloaded)
    IN  IF remaining < 0 THEN -whole ELSE whole

\* Line 263: the rate is computed, so the elapsed time is divided by.
DividesByElapsed(data) == data.start_time > 0 /\ data.downloaded_tiles > 0

\* Lines 257-282: the record with the derived metrics; t1 is the clock as line
\* 264 read it and t2 as line 282 did.  progress_percent and tiles_per_second
\* are in tenths (they are rounded to one decimal), the times in seconds.  The
\* elapsed time is not 0 here: line 265 raises when it is.
WithMetrics(data, t1, t2) ==
    LET rated == DividesByElapsed(data)
        ticks == t1 - data.start_time
    IN  [record |-> data,
         progress_percent |->
            IF data.total_tiles > 0
            THEN ProgressPercent(data.downloaded_tiles, data.total_tiles) ELSE 0,
         estimated_remaining_time |->
            IF rated /\ ticks > 0
            THEN EstimatedRemaining(data.total_tiles - data.downloaded_tiles,
                                    data.downloaded_tiles, ticks)
            ELSE 0,
         elapsed_time |-> IF rated THEN RoundHalfEven(ticks, TicksPerSecond) ELSE 0,
         tiles_per_second |->
            IF ~rated THEN 0
            ELSE IF ticks > 0 THEN TilesPerSecond(data.downloaded_tiles, ticks)
            ELSE -TilesPerSecond(data.downloaded_tiles, -ticks),
         last_update_ago |-> RoundHalfEven(t2 - data.last_update, TicksPerSecond)]

Snapshot(code, sid, data) == [code |-> code, sid |-> sid, data |-> data]

\* The session ids a client may ask about: those handed out, those that have a
\* record, and one that was never handed out.
UnknownSession == SessionId(0, 0)
QueryIds ==
    {requests[r].session_id : r \in {i \in 1..Len(requests) : requests[i].code = 202}}
    \cup DOMAIN progress_data \cup {UnknownSession}

\* A variant of KnownSession that looks the id up through the defaultdict
\* before testing it, so that every id is found.
AnySessionKnown(pd, sid) == sid \in DOMAIN GetItem(pd, sid)

\* Line 252: session_id in progress_data, a membership test that inserts nothing.
KnownSession(pd, sid) == sid \in DOMAIN pd

\* The handler holds no lock: a thread, another handler or the clock can come
\* between its reads of progress_data and of the clock, which are a step each.

\* Lines 250-253: GET /api/progress/<sid> arrives and the id is tested.  An
\* unknown id is answered 404.
get_progress(h, sid) ==
    /\ query[h].pc = "none"
    /\ IF ~KnownSession(progress_data, sid)
       THEN /\ snap' = Snapshot(404, sid, [error |-> "Session not found"])
            /\ UNCHANGED query
       ELSE /\ query' = [query EXCEPT ![h] = [NoQuery EXCEPT !.pc = "g_copy", !.sid = sid]]
            /\ snap' = NoSnap
    /\ UNCHANGED <<now, hashv, requests, progress_data, files, inodes, pc, loc, flask_server>>

\* Lines 23-36, from line 255: the record has been deleted since line 252 saw
\* it, and the lookup calls the default factory.
g_missing(h) ==
    /\ query[h].pc = "g_copy"
    /\ query[h].sid \notin DOMAIN progress_data
    /\ ~query[h].missing
    /\ query' = [query EXCEPT ![h].missing = TRUE]
    /\ snap' = NoSnap
    /\ UNCHANGED <<now, hashv, requests, progress_data, files, inodes, pc, loc, flask_server>>

\* Lines 255-263: progress_data[session_id].copy().  A lookup that went
\* through the default factory stores the new record under the key, as a
\* lookup of a thread does.  progress_percent is computed from the copy, and
\* the test of line 263 decides whether line 264 reads the clock.
g_copy(h) ==
    /\ query[h].pc = "g_copy"
    /\ query[h].sid \in DOMAIN progress_data \/ query[h].missing
    /\ LET sid == query[h].sid
           pd == IF query[h].missing
                 THEN [k \in DOMAIN progress_data \cup {sid} |->
                         IF k = sid THEN DefaultRecord ELSE progress_data[k]]
                 ELSE progress_data
       IN  /\ progress_data' = pd
           /\ loc' = [q \in Slots |->
                        IF query[h].missing /\ pc[q] # "none" /\ Sid(q) = sid
                        THEN [loc[q] EXCEPT !.held = FALSE] ELSE loc[q]]
           /\ query' = [query EXCEPT ![h].pc = IF DividesByElapsed(pd[sid])
                                               THEN "g_elapsed" ELSE "g_answer",
                                     ![h].missing = FALSE,
                                     ![h].data = pd[sid]]
    /\ snap' = NoSnap
    /\ UNCHANGED <<now, hashv, requests, files, inodes, pc, flask_server>>

\* Lines 264-265: time.time() - data['start_time'], and the division by it.
\* The two floats are equal when the clock has not moved since start_time was
\* read: the division by zero is an unhandled ZeroDivisionError, answered 500.
g_elapsed(h) ==
    /\ query[h].pc = "g_elapsed"
    /\ IF now = query[h].data.start_time
       THEN /\ snap' = Snapshot(500, query[h].sid, [error |-> "division by zero"])
            /\ query' = [query EXCEPT ![h] = NoQuery]
       ELSE /\ query' = [query EXCEPT ![h].pc = "g_answer", ![h].clock = now]
            /\ snap' = NoSnap
    /\ UNCHANGED <<now, hashv, requests, progress_data, files, inodes, pc, loc, flask_server>>

\* Lines 266-284: the metrics of the rate, the second time.time() of line 282,
\* and the answer.
g_answer(h) ==
    /\ query[h].pc = "g_answer"
    /\ snap' = Snapshot(200, query[h].sid,
                        WithMetrics(query[h].data, query[h].clock, now))
    /\ query' = [query EXCEPT ![h] = NoQuery]
    /\ UNCHANGED <<now, hashv, requests, progress_data, files, inodes, pc, loc, flask_server>>

\* The steps of the handler of app.py, where no record is deleted.
Handler(h) ==
    \/ \E sid \in QueryIds : get_progress(h, sid)
    \/ g_copy(h) \/ g_elapsed(h) \/ g_answer(h)

\* ------------------------------------------------------------ specification
Thread(r) ==
    \/ default_factory(r)
    \/ t_init(r) \/ t_start(r) \/ t_last(r) \/ t_update(r)
    \/ t_path(r) \/ t_connect(r)
    \/ t_schema(r) \/ t_tiles(r) \/ t_index(r) \/ t_metadata(r)
    \/ t_zoom(r) \/ t_zoom_clock(r) \/ t_zoom_last(r)
    \/ t_fetch(r) \/ t_progress(r) \/ t_clock(r) \/ t_touch(r) \/ t_sleep(r)
    \/ t_failed(r) \/ t_commit(r)
    \/ f_status(r) \/ f_error(r) \/ f_exists(r) \/ f_remove(r)
    \/ c_status(r) \/ c_clock(r) \/ c_last(r)
    \/ x_status(r) \/ x_error(r) \/ x_clock(r) \/ x_last(r) \/ x_exists(r)
    \/ x_remove(r)
    \/ b_exists(r) \/ b_size(r) \/ b_lookup(r) \/ b_last(r) \/ b_completed(r)
    \/ b_error(r) \/ b_error_last(r) \/ b_failed(r)

Next ==
    \/ Tick
    \/ \E inp \in Inputs : download_mbtiles(inp)
    \/ \E r \in Slots : Thread(r)
    \/ \E h \in Handlers : Handler(h)

Spec == Init /\ [][Next]_vars

\* ------------------------------------------- specification, without queries
\* A status handler of app.py writes nothing that a thread, a request handler
\* or another status handler reads: it tests and copies a record that is there
\* and reads the clock.  The requests, the threads, the records and the files
\* go through the same states with status queries as without them.
DownloadNext ==
    \/ Tick
    \/ \E inp \in Inputs : download_mbtiles(inp)
    \/ \E r \in Slots : Thread(r)

DownloadSpec == Init /\ [][DownloadNext]_vars

\* ------------------------------------------------------------- properties
\* The requests that were answered 202, and the session ids handed out.
AcceptedRequests == {r \in 1..Len(requests) : requests[r].code = 202}
IssuedIds == {requests[r].session_id : r \in AcceptedRequests}

\* The messages of the exceptions that are raised outside the per-tile handler.
FaultMessages ==
    {TableExistsMessage, ReadOnlyMessage, DiskErrorMessage, NoSuchFileMessage}

\* C1: the status of a session only moves idle -> downloading -> completed or
\* idle -> downloading -> error, and once it is completed or error no step of
\* any thread or request changes it to a different value.
C1_StatusTransitions ==
    [][\A sid \in DOMAIN progress_data :
          progress_data'[sid].status # progress_data[sid].status =>
             <<progress_data[sid].status, progress_data'[sid].status>> \in
                {<<"idle", "downloading">>,
                 <<"downloading", "completed">>,
                 <<"downloading", "error">>}]_vars

\* C2: downloaded_tiles as returned by successive snapshots of a session id is
\* non-decreasing.  A snapshot returns the record's counter as it was when the
\* handler copied the record, so once a snapshot has returned a value no step
\* may leave the record with a smaller one for the next query to return.
C2_DownloadedTilesMonotonic ==
    [][snap.code = 200 =>
          progress_data'[snap.sid].downloaded_tiles >=
              snap.data.record.downloaded_tiles]_vars

\* C3: if every tile fetch of a session fails, its final status is error with
\* the message that no tiles were successfully downloaded, and its output
\* archive is not on disk once the session is terminal.  The session here is
\* one request whose thread has ended without a fault, with at least one fetch
\* attempted and without an accepted tile; its status is final when no thread
\* writing its record is still running; its archive is the file its connection
\* was opened on.
C3_ZeroSuccessPolicy ==
    \A r \in AcceptedRequests :
        ( /\ pc[r] = "done"
          /\ loc[r].tile_count >= 1
          /\ loc[r].successful_tiles = 0
          /\ loc[r].error \notin FaultMessages
          /\ \A q \in AcceptedRequests : Sid(q) = Sid(r) => pc[q] = "done" )
        => /\ progress_data[Sid(r)].status = "error"
           /\ progress_data[Sid(r)].error = NoTilesMessage
           /\ \A p \in DOMAIN files : files[p] # loc[r].conn

\* C4: a request with latitude +90 or -90, or longitude +180 or -180, is
\* rejected by the input validation: it is answered 400 and no thread is
\* started for it.
C4_BoundaryRejected ==
    \A r \in 1..Len(requests) :
        ( /\ requests[r].input.has_lat
          /\ \/ requests[r].input.lat \in {-MaxLatitude, MaxLatitude}
             \/ requests[r].input.lon \in {-MaxLongitude, MaxLongitude} )
        => requests[r].code = 400 /\ pc[r] = "none"

\* C5: a request whose coordinates (outside [-90, 90] x [-180, 180]), zoom range
\* (outside 1..21, or min > max) or buffer (outside [0.001, 0.1]) fail the
\* validation is answered 400 with an error message, and the step that answers
\* it adds no progress record, starts no thread and creates no file.
C5_InvalidRequestChangesNothing ==
    [][LET n == Len(requests')
           inp == requests'[n].input
       IN  ( /\ n = Len(requests) + 1
             /\ inp.has_lat
             /\ \/ inp.lat < -MaxLatitude \/ inp.lat > MaxLatitude
                \/ inp.lon < -MaxLongitude \/ inp.lon > MaxLongitude
                \/ inp.min_zoom < MinZoomAllowed \/ inp.min_zoom > MaxZoomAllowed
                \/ inp.max_zoom < MinZoomAllowed \/ inp.max_zoom > MaxZoomAllowed
                \/ inp.min_zoom > inp.max_zoom
                \/ inp.buffer < MinBuffer \/ inp.buffer > MaxBuffer )
           => /\ requests'[n].code = 400
              /\ requests'[n].error # None
              /\ requests'[n].session_id = << >>
              /\ UNCHANGED <<progress_data, files, inodes, pc, loc, hashv>>]_vars

\* A request with min_zoom > max_zoom was answered 400 while the thread of an
\* earlier request was running.
C5_Witness ==
    \E r \in 2..Len(requests) :
        /\ requests[r].code = 400
        /\ requests[r].input.min_zoom > requests[r].input.max_zoom
        /\ requests[1].code = 202
        /\ pc[1] \notin {"none", "done"}
        /\ pc[r] = "none"

\* C6: a progress query for a session id that has no record is answered 404
\* and creates no record: a handler goes on to the copy of the record only
\* for an id that has one, an answer about an id without a record is 404, and
\* no step of a handler changes the keys of progress_data.
C6_UnknownSessionNotFound ==
    [][/\ \A h \in Handlers :
            (query[h].pc = "none" /\ query'[h].pc # "none")
            => query'[h].sid \in DOMAIN progress_data
       /\ (snap'.code # 0 /\ snap'.sid \notin DOMAIN progress_data)
          => snap'.code = 404
       /\ (query' # query \/ snap'.code # 0)
          => DOMAIN progress_data' = DOMAIN progress_data]_vars

\* A query for an id without a record was answered 404 while other sessions
\* have records.
C6_Witness ==
    /\ snap.code = 404
    /\ snap.sid \notin DOMAIN progress_data
    /\ DOMAIN progress_data # {}

\* C7: once download_mbtiles has returned a session id with 202, no progress
\* query for that id is answered 404.
C7_IssuedIdIsKnown ==
    snap.code = 404 => snap.sid \notin IssuedIds

\* C8: a snapshot whose status is completed carries the output path, the
\* display name and the file size of the archive, and a snapshot whose status
\* is error carries an error message.
C8_NoTornSnapshot ==
    snap.code = 200 =>
        /\ snap.data.record.status = "completed" =>
              /\ snap.data.record.output_file # NoName
              /\ snap.data.record.display_name # NoName
              /\ snap.data.record.file_size_bytes > 0
        /\ snap.data.record.status = "error" =>
              snap.data.record.error # None

\* C9: no step of one session's thread modifies or deletes the output archive
\* of a different session (the file that session's thread created), whether or
\* not that session has completed.
C9_ArtifactsIndependent ==
    [][\A r \in Slots :
          (pc'[r] # pc[r] \/ loc'[r] # loc[r]) =>
             \A p \in DOMAIN files :
                files[p] # r =>
                   /\ p \in DOMAIN files'
                   /\ files'[p] = files[p]
                   /\ inodes'[files[p]] = inodes[files[p]]]_vars

\* C10: two distinct accepted download requests never receive the same
\* session id.
C10_SessionIdsUnique ==
    \A r1, r2 \in AcceptedRequests :
        r1 # r2 => requests[r1].session_id # requests[r2].session_id

\* C11: when a session ends completed, the number of rows in the tiles table
\* of its archive (the database its connection wrote) equals the number of
\* its tile fetches that passed the validation, and that number is at most
\* the total_tiles of its progress record.
C11_RowsMatchAccepted ==
    \A r \in AcceptedRequests :
        ( /\ pc[r] = "done"
          /\ loc[r].returned_file # NoName
          /\ progress_data[Sid(r)].status = "completed" )
        => /\ Len(inodes[loc[r].conn].tiles) = loc[r].successful_tiles
           /\ loc[r].successful_tiles <= progress_data[Sid(r)].total_tiles

\* ------------------------------------------------------- the archive writer
\* The rows of a table that have the key.
RowsWithKey(tiles, key) ==
    {i \in 1..Len(tiles) : TileKey(tiles[i]) = key}

\* The rows of a table that do not have the key, in their order.
RowsWithoutKey(tiles, key) ==
    LET Other(row) == TileKey(row) # key IN SelectSeq(tiles, Other)

\* The table has one row for the key, with the data, and its other rows are
\* those of the table before.
OneRowFor(tiles, key, data, before) ==
    /\ Cardinality(RowsWithKey(tiles, key)) = 1
    /\ \A i \in RowsWithKey(tiles, key) : tiles[i].tile_data = data
    /\ RowsWithoutKey(tiles, key) = RowsWithoutKey(before, key)

\* The tiles table as the connection of thread r has it: the rows of the
\* archive with those of the open transaction written over them.
TilesSeen(r) == Committed(inodes[loc[r].conn], loc[r].txn).tiles

\* The images a write can carry.
TileImages == {PngTile, JpegTile}

\* C12: writing a tile with the same key twice leaves exactly one row for the
\* key, holding the data of the later write, and leaves the other rows as they
\* were; the tiles table never has two rows with the same key.  The table is
\* the one a connection has, its open transaction included.  Where a thread
\* is about to write a tile, lines 161-186 are applied a second time to the
\* same tile, in the same transaction and in one that follows a commit.  The
\* write a thread makes leaves one row for its key with the image received.
C12_UpsertIdempotent ==
    /\ [](\A r \in AcceptedRequests :
            loc[r].conn \in DOMAIN inodes
            => /\ \A i \in 1..Len(TilesSeen(r)) :
                     Cardinality(RowsWithKey(TilesSeen(r), TileKey(TilesSeen(r)[i]))) = 1
               /\ \A i \in 1..Len(inodes[loc[r].conn].tiles) :
                     Cardinality(RowsWithKey(inodes[loc[r].conn].tiles,
                                             TileKey(inodes[loc[r].conn].tiles[i]))) = 1
               /\ pc[r] = "t_fetch"
                  => \A d1, d2 \in TileImages :
                        LET key == <<loc[r].zoom, loc[r].x, TmsRow(loc[r].zoom, loc[r].y)>>
                            archive == inodes[loc[r].conn]
                            first == Fetched(loc[r], Response(200, d1), TRUE)
                            again == Fetched(first, Response(200, d2), TRUE)
                            later == Fetched([first EXCEPT !.txn = NoTransaction],
                                             Response(200, d2), TRUE)
                        IN  /\ OneRowFor(Committed(archive, first.txn).tiles,
                                         key, d1, TilesSeen(r))
                            /\ OneRowFor(Committed(archive, again.txn).tiles,
                                         key, d2, TilesSeen(r))
                            /\ OneRowFor(Committed(Committed(archive, first.txn),
                                                   later.txn).tiles,
                                         key, d2, TilesSeen(r)))
    /\ [][\A r \in AcceptedRequests :
            (pc[r] = "t_fetch" /\ loc'[r].successful_tiles > loc[r].successful_tiles)
            => OneRowFor(Committed(inodes'[loc'[r].conn], loc'[r].txn).tiles,
                         <<loc[r].zoom, loc[r].x, TmsRow(loc[r].zoom, loc[r].y)>>,
                         loc'[r].response.content, TilesSeen(r))]_vars

\* A thread is about to write a tile to an archive that has a committed row
\* of the zoom level before and rows of its open transaction.
C12_Witness ==
    \E r \in AcceptedRequests :
        /\ pc[r] = "t_fetch"
        /\ loc[r].conn \in DOMAIN inodes
        /\ Len(inodes[loc[r].conn].tiles) >= 1
        /\ Len(loc[r].txn.tiles) >= 2

\* ------------------------------------------------------- the row conversion
\* C13: for every zoom and every row 0 <= row < 2^zoom, the conversion
\* row -> (2^zoom - 1) - row is its own inverse and maps [0, 2^zoom) onto
\* itself, and the tile_row that is stored is (2^zoom - 1) minus the row of
\* the fetch URL, whether that row is in the grid or not.  The zoom levels are
\* those up to MaxTmsZoom; the rows stored are those of the sessions.
C13_TmsRowInvolution ==
    /\ [](\A zoom \in 0..MaxTmsZoom :
            LET rows == 0..(Pow2(zoom) - 1)
            IN  /\ \A row \in rows :
                      /\ TmsRow(zoom, TmsRow(zoom, row)) = row
                      /\ TmsRow(zoom, row) \in rows
                /\ {TmsRow(zoom, row) : row \in rows} = rows)
    /\ [][\A r \in AcceptedRequests :
            (pc[r] = "t_fetch" /\ loc'[r].successful_tiles > loc[r].successful_tiles)
            => LET stored == loc'[r].txn.tiles[Len(loc'[r].txn.tiles)]
               IN  /\ stored.zoom_level = loc[r].zoom
                   /\ stored.tile_column = loc[r].x
                   /\ stored.tile_row = (Pow2(loc[r].zoom) - 1) - loc[r].y
                   /\ TmsRow(loc[r].zoom, stored.tile_row) = loc[r].y]_vars

\* The image of a tile of zoom 15 was stored: the row of the fetch URL is in
\* the grid, and the row stored is another one.
C13_Witness ==
    \E r \in AcceptedRequests :
        /\ pc[r] = "t_progress"
        /\ loc[r].zoom = 15
        /\ Accepted(loc[r].response)
        /\ 0 <= loc[r].y /\ loc[r].y < Pow2(15)
        /\ Len(loc[r].txn.tiles) >= 1
        /\ loc[r].txn.tiles[Len(loc[r].txn.tiles)].tile_row = (Pow2(15) - 1) - loc[r].y
        /\ loc[r].txn.tiles[Len(loc[r].txn.tiles)].tile_row # loc[r].y

\* The sum of the per-zoom counts of the zoom levels zoom..max_zoom.
RECURSIVE SumCounts(_, _, _)
SumCounts(counts, zoom, max_zoom) ==
    IF zoom > max_zoom THEN 0
    ELSE counts[zoom] + SumCounts(counts, zoom + 1, max_zoom)

\* The (x, y) the loops of lines 154-155 go through at a zoom level.
IteratedTiles(r, zoom) ==
    LET lo == deg2num(MinLat(r), MinLon(r), zoom)
        hi == deg2num(MaxLat(r), MaxLon(r), zoom)
    IN  (lo[1]..hi[1]) \X (hi[2]..lo[2])

\* C14: for the bounding box and zoom range of every accepted request,
\* calculate_total_tiles gives per-zoom counts equal to
\* (max_x - min_x + 1) * (max_y - min_y + 1), a total equal to their sum, and
\* per-zoom counts equal to the number of tiles the orchestrator iterates at
\* that zoom, so that a thread that has left the loops has attempted total tiles.
C14_TotalTilesMatchIteration ==
    \A r \in AcceptedRequests :
        LET c == calculate_total_tiles(MinLat(r), MaxLat(r), MinLon(r), MaxLon(r),
                                       Inp(r).min_zoom, Inp(r).max_zoom)
            zooms == Inp(r).min_zoom..Inp(r).max_zoom
        IN  /\ DOMAIN c.tiles_per_zoom = zooms
            /\ \A z \in zooms :
                  LET lo == deg2num(MinLat(r), MinLon(r), z)
                      hi == deg2num(MaxLat(r), MaxLon(r), z)
                  IN  /\ c.tiles_per_zoom[z] = (hi[1] - lo[1] + 1) * (lo[2] - hi[2] + 1)
                      /\ c.tiles_per_zoom[z] = Cardinality(IteratedTiles(r, z))
            /\ c.total = SumCounts(c.tiles_per_zoom, Inp(r).min_zoom, Inp(r).max_zoom)
            /\ pc[r] \in {"f_status", "c_status"} => loc[r].tile_count = c.total

\* C15: for every accepted request, the estimated_tiles returned at acceptance
\* equals the total_tiles that the request's thread stores in the session's
\* progress record when it initialises it (the update of lines 81-91 on the
\* record the thread got from progress_data).
C15_EstimateEqualsTotal ==
    [][\A r \in AcceptedRequests :
          (pc[r] = "t_update" /\ pc'[r] = "t_path" /\ loc[r].held) =>
             progress_data'[Sid(r)].total_tiles = requests[r].estimated_tiles]_vars

\* The thread of a request over two zoom levels has initialised the record
\* with the two tiles that were estimated.
C15_Witness ==
    \E r \in AcceptedRequests :
        /\ pc[r] = "t_path"
        /\ requests[r].estimated_tiles = 2
        /\ progress_data[Sid(r)].total_tiles = 2
        /\ progress_data[Sid(r)].status = "downloading"

\* The thread at a fetch has a further tile to request after this one: in this
\* zoom level, or in a later one of its range.
FurtherAttempt(r) ==
    \/ ~LastTile(r, loc[r])
    \/ \E z \in (loc[r].zoom + 1)..Inp(r).max_zoom : IteratedTiles(r, z) # {}

\* C16: after every tile fetch attempt, whatever its outcome, the delay occurs
\* before the next attempt of the same session.  The thread delays only in the
\* step of line 197, so when an attempt is not the session's last, the step
\* that takes the thread from the attempt on to the next tile has to be that
\* one.
C16_DelayAfterEveryAttempt ==
    [][\A r \in Slots :
          ( /\ pc[r] \in {"t_progress", "t_clock", "t_touch", "t_sleep", "t_failed"}
            /\ pc'[r] \in {"t_fetch", "t_commit"}
            /\ FurtherAttempt(r) )
          => pc[r] = "t_sleep"]_vars

\* The thread of request r has ended, and so has every thread that writes the
\* same progress record.
Settled(r) ==
    /\ pc[r] = "done"
    /\ \A q \in AcceptedRequests : Sid(q) = Sid(r) => pc[q] = "done"

\* C17: a fault raised during orchestration outside the per-tile handler (in
\* the model: a statement on the archive or os.remove raising) ends the
\* session with status error and the fault's message, and leaves no archive
\* file at the session's output path.
C17_FaultEndsInError ==
    \A r \in AcceptedRequests :
        (Settled(r) /\ loc[r].error \in FaultMessages)
        => /\ progress_data[Sid(r)].status = "error"
           /\ progress_data[Sid(r)].error = loc[r].error
           /\ ~Exists(loc[r].output_file)

\* C18: a session that accepted at least one tile and met no orchestration
\* fault ends with status completed; error is only for zero accepted tiles or
\* a fault.
C18_ErrorOnlyWithoutTilesOrOnFault ==
    \A r \in AcceptedRequests :
        (Settled(r) /\ loc[r].successful_tiles >= 1 /\ loc[r].error = None)
        => progress_data[Sid(r)].status = "completed"

\* C19: a progress snapshot of a known session always returns normally, also
\* when now - start_time is 0 while downloaded_tiles > 0, and it reports
\* tiles_per_second = 0 and estimated_remaining_time = 0 when downloaded_tiles
\* is 0 or the elapsed time is 0.
C19_SnapshotNeverFaults ==
    (snap.code # 0 /\ snap.code # 404)
    => /\ snap.code = 200
       /\ (snap.data.record.downloaded_tiles = 0 \/ now - snap.data.record.start_time = 0)
          => /\ snap.data.tiles_per_second = 0
             /\ snap.data.estimated_remaining_time = 0

\* ------------------------------------------------- specification, fair threads
\* Lines 356-358: every accepted request has a daemon thread of its own, which
\* the interpreter keeps scheduling; no step of it waits for another thread,
\* and requests.get returns or raises within its timeout.  The requests arrive
\* within one reading of the clock, the case in which sessions share ids and
\* archive files, and no progress query is made (a query writes nothing a
\* thread reads).
FairNext ==
    \/ \E inp \in Inputs : download_mbtiles(inp)
    \/ \E r \in Slots : Thread(r)

FairSpec == Init /\ [][FairNext]_vars /\ \A r \in Slots : WF_vars(Thread(r))

TerminalStatus == {"completed", "error"}

\* C20: a running thread always has a step it can take, and under fair
\* scheduling of the threads every accepted session's thread ends, the
\* session's status being completed or error when it does.
C20_EventuallyTerminal ==
    /\ [](\A r \in Slots : pc[r] \notin {"none", "done"} => ENABLED Thread(r))
    /\ \A r \in Slots :
          (pc[r] # "none")
          ~> /\ pc[r] = "done"
             /\ Sid(r) \in DOMAIN progress_data
             /\ progress_data[Sid(r)].status \in TerminalStatus

\* A session that went through both of its zoom levels and ended.
C20_Witness ==
    \E r \in AcceptedRequests :
        /\ pc[r] = "done"
        /\ loc[r].tile_count = 2
        /\ progress_data[Sid(r)].status \in TerminalStatus

\* ------------------------------------------------ specification, one session
\* One request on a fresh /tmp: a box of one tile at zoom 14 and two columns
\* by two rows at zoom 15, or a box north of the Web-Mercator limit.  With no
\* other session the archive file is new, so CREATE TABLE does not raise and
\* the handler of line 227 is not entered.
SessionInputs ==
    { Input(129716, 775946, 50, 14, 15, << >>),
      Input(890000, 775946, 50, 1, 2, << >>) }

SessionThread(r) ==
    \/ default_factory(r)
    \/ t_init(r) \/ t_start(r) \/ t_last(r) \/ t_update(r)
    \/ t_path(r) \/ t_connect(r)
    \/ t_schema(r) \/ t_tiles(r) \/ t_index(r) \/ t_metadata(r)
    \/ t_zoom(r) \/ t_zoom_clock(r) \/ t_zoom_last(r)
    \/ t_fetch(r) \/ t_progress(r) \/ t_clock(r) \/ t_touch(r) \/ t_sleep(r)
    \/ t_failed(r) \/ t_commit(r)
    \/ f_status(r) \/ f_error(r) \/ f_exists(r) \/ f_remove(r)
    \/ c_status(r) \/ c_clock(r) \/ c_last(r)
    \/ b_exists(r) \/ b_size(r) \/ b_lookup(r) \/ b_last(r) \/ b_completed(r)
    \/ b_error(r) \/ b_error_last(r) \/ b_failed(r)

SessionNext ==
    \/ Tick
    \/ \E inp \in SessionInputs : requests = << >> /\ download_mbtiles(inp)
    \/ SessionThread(1)

SessionSpec == Init /\ [][SessionNext]_vars

\* ------------------------------------ specification, one session and queries
\* One request on a fresh /tmp, its thread and status queries.
QueryNext ==
    \/ Tick
    \/ \E inp \in ValidInputs : requests = << >> /\ download_mbtiles(inp)
    \/ SessionThread(1)
    \/ \E h \in Handlers : Handler(h)

QuerySpec == Init /\ [][QueryNext]_vars

\* ----------------------------------- specification, two requests and queries
\* Two requests for the same box, one tile at zoom 10, under the same name,
\* their threads and status queries.
PairInputs == { Input(129716, 775946, 50, 10, 10, <<"a">>) }

PairNext ==
    \/ Tick
    \/ \E inp \in PairInputs : download_mbtiles(inp)
    \/ \E r \in Slots : Thread(r)
    \/ \E h \in Handlers : Handler(h)

PairSpec == Init /\ [][PairNext]_vars

RECURSIVE TilesOfZooms(_, _, _)
\* The number of (x, y) the loops of lines 154-155 go through at the zoom
\* levels zoom..max_zoom.
TilesOfZooms(r, zoom, max_zoom) ==
    IF zoom > max_zoom THEN 0
    ELSE Cardinality(IteratedTiles(r, zoom)) + TilesOfZooms(r, zoom + 1, max_zoom)

\* The number of tile indices that come before (zoom, x, y) in the order of the
\* loops of lines 139, 154 and 155.
TilesBefore(r, zoom, x, y) ==
    LET b == Bounds(r, zoom) IN
    TilesOfZooms(r, Inp(r).min_zoom, zoom - 1)
    + (x - b.min_x) * (b.max_y - b.min_y + 1) + (y - b.min_y)

\* Where a thread stands while it deals with one tile: before the request,
\* and from its outcome to the next tile.
TileLabels == {"t_fetch", "t_progress", "t_clock", "t_touch", "t_sleep", "t_failed"}

\* C21: in a session without a session-fatal fault every tile index of the
\* computed ranges is fetched exactly once, whatever the outcome of earlier
\* tiles: the attempt number k (counted by tile_count) is made on the k-th
\* index of the ranges, and the loops end after as many attempts as there are
\* indices.
C21_EachTileOnce ==
    \A r \in AcceptedRequests :
        /\ pc[r] \in TileLabels =>
              <<loc[r].x, loc[r].y>> \in IteratedTiles(r, loc[r].zoom)
        /\ pc[r] = "t_fetch" =>
              loc[r].tile_count = TilesBefore(r, loc[r].zoom, loc[r].x, loc[r].y)
        /\ pc[r] \in TileLabels \ {"t_fetch"} =>
              loc[r].tile_count = TilesBefore(r, loc[r].zoom, loc[r].x, loc[r].y) + 1
        /\ pc[r] = "t_commit" =>
              loc[r].tile_count = TilesOfZooms(r, Inp(r).min_zoom, loc[r].zoom)
        /\ pc[r] \in {"f_status", "c_status"} =>
              loc[r].tile_count = TilesOfZooms(r, Inp(r).min_zoom, Inp(r).max_zoom)

\* A session is about to fetch the last of its five tiles after tiles that
\* failed and tiles that were stored.
C21_Witness ==
    /\ pc[1] = "t_fetch"
    /\ loc[1].tile_count = 4
    /\ loc[1].failed_tiles >= 1
    /\ loc[1].successful_tiles >= 1

\* C22: every tile attempt, accepted, rejected or ended by an exception, makes
\* the session's tile counter exactly one greater, and the thread's next step
\* publishes the new value as downloaded_tiles of the progress record; no
\* other step of the loops changes the counter.
C22_CounterCountsAttempts ==
    [][\A r \in Slots :
          /\ (pc[r] = "t_fetch" /\ loc'[r] # loc[r])
             => /\ loc'[r].tile_count = loc[r].tile_count + 1
                /\ pc'[r] \in {"t_progress", "t_failed"}
          /\ (pc[r] \in {"t_progress", "t_failed"} /\ pc'[r] # pc[r])
             => progress_data'[Sid(r)].downloaded_tiles = loc[r].tile_count
          /\ (pc[r] \in {"t_zoom", "t_zoom_clock", "t_zoom_last", "t_progress",
                          "t_clock", "t_touch", "t_sleep", "t_failed", "t_commit"})
             => loc'[r].tile_count = loc[r].tile_count]_vars

\* A session has made two attempts, one stored and one failed, and the record
\* shows two.
C22_Witness ==
    \E r \in AcceptedRequests :
        /\ loc[r].successful_tiles = 1
        /\ loc[r].failed_tiles = 1
        /\ pc[r] \in {"t_clock", "t_touch", "t_sleep", "t_commit"}
        /\ progress_data[Sid(r)].downloaded_tiles = 2

\* The zoom levels of a sequence of tile rows.
ZoomsOf(tiles) == {tiles[i].zoom_level : i \in 1..Len(tiles)}

\* C23: within a session the transaction is committed once per zoom level,
\* after all tiles of that zoom level have been attempted and before any tile
\* of the next one is fetched, and never between two tiles of a zoom level:
\* while a zoom level is being fetched the archive holds only rows of earlier
\* zoom levels and the open transaction only rows of this one; a commit is
\* made when every index up to the end of the zoom level has been attempted,
\* and it empties the transaction and moves on to the next zoom level or out
\* of the loops.
C23_CommitOncePerZoom ==
    /\ [](\A r \in AcceptedRequests :
            pc[r] \in {"t_zoom", "t_zoom_clock", "t_zoom_last", "t_commit"}
                     \cup TileLabels =>
               /\ \A z \in ZoomsOf(inodes[loc[r].conn].tiles) : z < loc[r].zoom
               /\ \A z \in ZoomsOf(loc[r].txn.tiles) : z = loc[r].zoom)
    /\ [][\A r \in AcceptedRequests :
            /\ (inodes' # inodes /\ pc'[r] # pc[r])
               => pc[r] \in {"t_connect", "t_schema", "t_tiles", "t_index", "t_commit"}
            /\ (pc[r] = "t_commit" /\ pc'[r] # "t_commit")
               => /\ loc[r].tile_count = TilesOfZooms(r, Inp(r).min_zoom, loc[r].zoom)
                  /\ inodes'[loc[r].conn] = Committed(inodes[loc[r].conn], loc[r].txn)
                  /\ loc'[r].txn = NoTransaction
                  /\ \/ pc'[r] = "t_zoom" /\ loc'[r].zoom = loc[r].zoom + 1
                     \/ pc'[r] \in {"f_status", "c_status"}
                        /\ loc[r].zoom = Inp(r).max_zoom]_vars

\* The tile of zoom 14 is committed, two rows of zoom 15 are in the open
\* transaction and a further tile of zoom 15 is about to be fetched.
C23_Witness ==
    /\ pc[1] = "t_fetch"
    /\ ZoomsOf(inodes[loc[1].conn].tiles) = {14}
    /\ Len(loc[1].txn.tiles) = 2
    /\ loc[1].zoom = 15

\* The names of the metadata rows of lines 119-130.
MetadataNames ==
    <<"name", "type", "version", "description", "format", "bounds",
      "minzoom", "maxzoom", "center", "attribution">>

\* The full set of metadata rows, each name once.
FullMetadata(rows) ==
    /\ Len(rows) = Len(MetadataNames)
    /\ \A i \in 1..Len(rows) : rows[i][1] = MetadataNames[i]

\* C24: in every archive the full set of metadata rows is inserted once, not
\* after the first tile row, and no later step inserts, updates or deletes a
\* metadata row: an archive or open transaction with a tile row has the full
\* set, an archive's metadata is empty or the full set, and once it is there
\* no step changes it.
C24_MetadataWrittenOnce ==
    /\ [](/\ \A i \in DOMAIN inodes :
               /\ inodes[i].metadata = << >> \/ FullMetadata(inodes[i].metadata)
               /\ inodes[i].tiles # << >> => FullMetadata(inodes[i].metadata)
          /\ \A r \in AcceptedRequests :
               loc[r].txn.tiles # << >> =>
                  FullMetadata(inodes[loc[r].conn].metadata \o loc[r].txn.metadata))
    /\ [][\A i \in DOMAIN inodes :
            inodes[i].metadata # << >> => inodes'[i].metadata = inodes[i].metadata]_vars

\* An archive with the rows of two zoom levels, committed one after the other,
\* and its metadata.
C24_Witness ==
    \E i \in DOMAIN inodes :
        /\ ZoomsOf(inodes[i].tiles) = {10, 11}
        /\ FullMetadata(inodes[i].metadata)

\* C25: within one session the fetch attempts are ordered by zoom level
\* strictly ascending, then by column ascending, then by row ascending, and
\* the current_zoom of the session's progress record never decreases and lies
\* in [min_zoom, max_zoom] once the session is downloading.
C25_FetchOrder ==
    /\ [](\A r \in AcceptedRequests :
            (pc[r] \in TileLabels \cup {"t_commit"}
             /\ Sid(r) \in DOMAIN progress_data
             /\ progress_data[Sid(r)].status = "downloading")
            => /\ progress_data[Sid(r)].current_zoom >= Inp(r).min_zoom
               /\ progress_data[Sid(r)].current_zoom <= Inp(r).max_zoom)
    /\ [][/\ \A r \in AcceptedRequests :
               /\ (pc[r] \in {"t_sleep", "t_failed"} /\ pc'[r] = "t_fetch")
                  => /\ loc'[r].zoom = loc[r].zoom
                     /\ \/ loc'[r].x > loc[r].x
                        \/ loc'[r].x = loc[r].x /\ loc'[r].y > loc[r].y
               /\ (pc[r] = "t_commit" /\ pc'[r] = "t_zoom")
                  => loc'[r].zoom = loc[r].zoom + 1
               /\ (pc[r] \in {"t_zoom", "t_zoom_clock", "t_zoom_last"} \cup TileLabels)
                  => loc'[r].zoom = loc[r].zoom
          /\ \A sid \in DOMAIN progress_data :
               (progress_data[sid].status = "downloading"
                /\ progress_data'[sid].status = "downloading")
               => progress_data'[sid].current_zoom >= progress_data[sid].current_zoom]_vars

\* HTTP 200 with a non-empty body that begins with 0x89 'P' 'N' 'G' or with
\* 0xFF 0xD8 0xFF.
ImageResponse(resp) ==
    /\ resp.status_code = 200
    /\ Len(resp.content) > 0
    /\ \/ /\ Len(resp.content) >= 4
          /\ <<resp.content[1], resp.content[2], resp.content[3], resp.content[4]>>
               = <<137, 80, 78, 71>>
       \/ /\ Len(resp.content) >= 3
          /\ <<resp.content[1], resp.content[2], resp.content[3]>> = <<255, 216, 255>>

\* C26: a tile row is written if and only if the fetch returned HTTP 200 with
\* a non-empty body that begins with the PNG or the JPEG signature; every
\* other response, and an exception, writes no row and is counted as failed.
C26_RowIffImage ==
    [][\A r \in Slots :
          (pc[r] = "t_fetch" /\ loc'[r] # loc[r]) =>
             LET resp == loc'[r].response
                 key == <<loc[r].zoom, loc[r].x, TmsRow(loc[r].zoom, loc[r].y)>>
             IN  IF ImageResponse(resp)
                 THEN /\ loc'[r].txn.tiles = Upsert(loc[r].txn.tiles, key, resp.content)
                      /\ loc'[r].successful_tiles = loc[r].successful_tiles + 1
                      /\ loc'[r].failed_tiles = loc[r].failed_tiles
                 ELSE /\ loc'[r].txn.tiles = loc[r].txn.tiles
                      /\ loc'[r].successful_tiles = loc[r].successful_tiles
                      /\ loc'[r].failed_tiles = loc[r].failed_tiles + 1]_vars

\* 0 <= i < 2^zoom
InGrid(zoom, i) == 0 <= i /\ i < Pow2(zoom)

\* C27: for every accepted request, every tile index that is fetched and every
\* tile row that is stored has its column and its row in 0 .. 2^zoom - 1.
C27_IndicesInGrid ==
    \A r \in AcceptedRequests :
        /\ pc[r] \in TileLabels =>
              InGrid(loc[r].zoom, loc[r].x) /\ InGrid(loc[r].zoom, loc[r].y)
        /\ \A k \in 1..Len(loc[r].txn.tiles) :
              LET row == loc[r].txn.tiles[k]
              IN  /\ InGrid(row.zoom_level, row.tile_column)
                  /\ InGrid(row.zoom_level, row.tile_row)

\* C28: in every state of a session 0 <= downloaded_tiles <= total_tiles, and
\* downloaded_tiles = total_tiles once the session is completed; a progress
\* snapshot shows a progress_percent within [0, 100], and 100 at completion
\* (progress_percent is in tenths).
C28_DownloadedWithinTotal ==
    /\ \A sid \in DOMAIN progress_data :
          /\ 0 <= progress_data[sid].downloaded_tiles
          /\ progress_data[sid].downloaded_tiles <= progress_data[sid].total_tiles
          /\ progress_data[sid].status = "completed"
             => progress_data[sid].downloaded_tiles = progress_data[sid].total_tiles
    /\ snap.code = 200
       => /\ 0 <= snap.data.progress_percent
          /\ snap.data.progress_percent <= 1000
          /\ snap.data.record.status = "completed" => snap.data.progress_percent = 1000

\* C29: every change of downloaded_tiles in a progress record comes with a
\* refresh of last_update to the time of the change, whatever the outcome of
\* the tile, so last_update is never older than the latest tile attempt: the
\* step that publishes the counter either leaves last_update at the current
\* time or is followed by the thread's refresh of last_update, which reads
\* the clock after the counter was published and stores that reading.
C29_LastUpdateRefreshed ==
    [][\A r \in Slots :
          /\ (pc[r] \in {"t_progress", "t_failed"} /\ pc'[r] # pc[r])
             => \/ pc'[r] = "t_clock"
                \/ progress_data'[Sid(r)].last_update = now
          /\ (pc[r] = "t_clock" /\ pc'[r] # pc[r])
             => pc'[r] = "t_touch" /\ loc'[r].last_update = now
          /\ (pc[r] = "t_touch" /\ pc'[r] # pc[r])
             => progress_data'[Sid(r)].last_update = loc[r].last_update]_vars

\* ------------------------------------- specification, app_working.py variant
\* src/scripts/app_working.py has the handlers and the thread of src/api/app.py
\* (its lines 68-237 are the same but for the directory of the output path,
\* the handlers are 106 lines further down) and one handler more,
\* cleanup_session.
CleanedUpMessage == "Session cleaned up successfully"

\* del progress_data[session_id]
Deleted(pd, sid) == [k \in DOMAIN pd \ {sid} |-> pd[k]]

\* Lines 95-101 of app_working.py: the output path is relative to the working
\* directory of the server.
WorkingOutputFile(custom_filename, t) ==
    IF custom_filename # << >>
    THEN safe_filename(custom_filename) \o <<".mbtiles">>
    ELSE <<"o", "u", "t", "p", "u", "t", "_">> \o Decimal(t) \o <<".mbtiles">>

\* Lines 94-101 of app_working.py: the output path, which reads the clock when
\* no name was given.
w_path(r) ==
    /\ pc[r] = "t_path"
    /\ loc' = [loc EXCEPT ![r].output_file =
                 WorkingOutputFile(Inp(r).filename, Seconds(now))]
    /\ Goto(r, "t_connect")
    /\ UNCHANGED <<now, hashv, requests, progress_data, files, inodes, flask_server>>
    /\ NotAQuery

\* The thread of app_working.py on a working directory that has no archive:
\* the steps of app.py with the path of app_working.py.
WorkingThread(r) ==
    \/ default_factory(r)
    \/ t_init(r) \/ t_start(r) \/ t_last(r) \/ t_update(r)
    \/ w_path(r) \/ t_connect(r)
    \/ t_schema(r) \/ t_tiles(r) \/ t_index(r) \/ t_metadata(r)
    \/ t_zoom(r) \/ t_zoom_clock(r) \/ t_zoom_last(r)
    \/ t_fetch(r) \/ t_progress(r) \/ t_clock(r) \/ t_touch(r) \/ t_sleep(r)
    \/ t_failed(r) \/ t_commit(r)
    \/ f_status(r) \/ f_error(r) \/ f_exists(r) \/ f_remove(r)
    \/ c_status(r) \/ c_clock(r) \/ c_last(r)
    \/ b_exists(r) \/ b_size(r) \/ b_lookup(r) \/ b_last(r) \/ b_completed(r)
    \/ b_error(r) \/ b_error_last(r) \/ b_failed(r)

\* The handler of cleanup_session holds no lock either: a thread or another
\* handler can come between its test, its lookup and its del, which are a step
\* each.

\* Lines 489-493 and 505-506 of app_working.py: POST /cleanup_session/<sid>
\* arrives and the id is tested.  An unknown id is answered 404.
cleanup_session(k, sid) ==
    /\ query[k].pc = "none"
    /\ IF ~KnownSession(progress_data, sid)
       THEN /\ snap' = Snapshot(404, sid, [error |-> "Session not found"])
            /\ UNCHANGED query
       ELSE /\ query' = [query EXCEPT ![k] = [NoQuery EXCEPT !.pc = "k_get", !.sid = sid]]
            /\ snap' = NoSnap
    /\ UNCHANGED <<now, hashv, requests, progress_data, files, inodes, pc, loc, flask_server>>

\* Lines 23-36, from line 495: another cleanup has deleted the record since
\* line 493 saw it, and the lookup calls the default factory.
k_missing(k) ==
    /\ query[k].pc = "k_get"
    /\ query[k].sid \notin DOMAIN progress_data
    /\ ~query[k].missing
    /\ query' = [query EXCEPT ![k].missing = TRUE]
    /\ snap' = NoSnap
    /\ UNCHANGED <<now, hashv, requests, progress_data, files, inodes, pc, loc, flask_server>>

\* Line 495: progress_data[session_id].get('output_file').  A lookup that went
\* through the default factory stores the new record under the key, as a
\* lookup of a thread does.  output_file is not used after it.
k_get(k) ==
    /\ query[k].pc = "k_get"
    /\ query[k].sid \in DOMAIN progress_data \/ query[k].missing
    /\ LET sid == query[k].sid
       IN  /\ progress_data' =
                IF query[k].missing
                THEN [s \in DOMAIN progress_data \cup {sid} |->
                        IF s = sid THEN DefaultRecord ELSE progress_data[s]]
                ELSE progress_data
           /\ loc' = [q \in Slots |->
                        IF query[k].missing /\ pc[q] # "none" /\ Sid(q) = sid
                        THEN [loc[q] EXCEPT !.held = FALSE] ELSE loc[q]]
    /\ query' = [query EXCEPT ![k].pc = "k_del", ![k].missing = FALSE]
    /\ snap' = NoSnap
    /\ UNCHANGED <<now, hashv, requests, files, inodes, pc, flask_server>>

\* Lines 498-504: del progress_data[session_id] and the answer 200.  A record
\* that a thread got from its lookup is no more the one under the key.  When
\* another cleanup has deleted the record since line 495, del raises KeyError
\* and lines 507-508 answer 500 with str(e), the id in quotes.
k_del(k) ==
    /\ query[k].pc = "k_del"
    /\ LET sid == query[k].sid
       IN  IF sid \in DOMAIN progress_data
           THEN /\ progress_data' = Deleted(progress_data, sid)
                /\ loc' = [q \in Slots |->
                             IF pc[q] # "none" /\ Sid(q) = sid
                             THEN [loc[q] EXCEPT !.held = FALSE] ELSE loc[q]]
                /\ snap' = Snapshot(200, sid, [status |-> CleanedUpMessage])
           ELSE /\ snap' = Snapshot(500, sid, [error |-> <<"'", sid, "'">>])
                /\ UNCHANGED <<progress_data, loc>>
    /\ query' = [query EXCEPT ![k] = NoQuery]
    /\ UNCHANGED <<now, hashv, requests, files, inodes, pc, flask_server>>

\* The steps of cleanup_session.
Cleanup(k) ==
    \/ \E sid \in QueryIds : cleanup_session(k, sid)
    \/ k_missing(k) \/ k_get(k) \/ k_del(k)

\* One request, its thread, progress queries and cleanups.
CleanupNext ==
    \/ Tick
    \/ \E inp \in PairInputs : requests = << >> /\ download_mbtiles(inp)
    \/ WorkingThread(1)
    \/ \E h \in Handlers : Handler(h) \/ g_missing(h)
    \/ \E k \in Cleaners : Cleanup(k)

CleanupSpec == Init /\ [][CleanupNext]_vars

\* The record of sid was created by the session's thread and is there no
\* more: a cleanup_session(sid) has deleted it at line 498 and answered 200,
\* the only step that removes a record.
CleanedUp(sid) ==
    /\ sid \notin DOMAIN progress_data
    /\ \E r \in AcceptedRequests : Sid(r) = sid /\ pc[r] \notin {"none", "t_init"}

\* C30: after cleanup_session(s) has returned success, progress_data holds no
\* record for s and every later progress query for s is answered 404, also
\* while the thread of s is still running.  A later query is one whose test of
\* line 252 (358 in app_working.py) is made after the cleanup: it is not let
\* through to the copy, and the answer it gives at once is 404.
C30_CleanedSessionStaysUnknown ==
    [][\A sid \in IssuedIds :
          CleanedUp(sid)
          => /\ sid \notin DOMAIN progress_data'
             /\ \A h \in Handlers :
                   (query[h].pc = "none" /\ query'[h].pc # "none")
                   => query'[h].sid # sid
             /\ (query' = query /\ snap'.code # 0 /\ snap'.sid = sid)
                => snap'.code = 404]_vars

\* --------------------------------------- src/scripts/flask_server.py variant
\* The server is run as a script, so that the import of line 166 has bound
\* time before a request is handled.  The state of src/api/app.py is left
\* alone.
app == <<hashv, requests, progress_data, files, inodes, pc, loc>>

\* The JSON bodies posted to /api/download-mbtiles; has_name is FALSE when the
\* body has no "outputName".  The other required fields are there.
DownloadBody(has_name, name, minz, maxz) ==
    [has_name |-> has_name, outputName |-> name, minZoom |-> minz, maxZoom |-> maxz]

DownloadBodies ==
    { DownloadBody(TRUE, "a", 0, 18),
      DownloadBody(TRUE, "b", 3, 3),
      DownloadBody(TRUE, "a", -1, 3),
      DownloadBody(TRUE, "a", 0, 19),
      DownloadBody(TRUE, "a", 5, 4),
      DownloadBody(FALSE, "", 0, 18) }

\* Lines 38-41: the required fields.
MissingField(body) == ~body.has_name

\* Line 54.
InvalidZoomLevels(body) ==
    body.minZoom < 0 \/ body.maxZoom > 18 \/ body.minZoom > body.maxZoom

\* Line 58: f"{data['outputName']}_{int(time.time())}"
DownloadId(name, t) == <<name, t>>

\* d[key] = value
Stored(d, key, value) ==
    [k \in DOMAIN d \cup {key} |-> IF k = key THEN value ELSE d[k]]

\* A request that download_mbtiles of flask_server.py has answered, or is
\* handling when code is 0: at is the step it is at, and started_at waits for
\* the store of line 83.
Answered(code, id) ==
    [code |-> code, download_id |-> id, at |-> "done", started_at |-> 0]

\* The module mbtiles_downloader is not part of src/.  The call of lines 63-70
\* is taken to end in any way lines 71-80 and 113-125 can tell apart: it
\* returns a result whose 'success' is true or false, it returns a value that
\* has no 'success' to read, or it raises.  A call that does not end is a
\* thread that takes no step.  has_success is FALSE for the value line 114
\* cannot read.
DownloadResult(has_success, success, error) ==
    [has_success |-> has_success, success |-> success, error |-> error]

DownloadReturns ==
    { DownloadResult(TRUE, TRUE, None),
      DownloadResult(TRUE, FALSE, "download failed"),
      DownloadResult(FALSE, FALSE, None) }

\* Lines 75-78: the result that stands for an exception.
DownloadRaised == DownloadResult(TRUE, FALSE, "exception")
KeyErrorResult == DownloadResult(TRUE, FALSE, "KeyError")

\* Lines 32-58: POST /api/download-mbtiles arrives.  A body without a required
\* field or with invalid zoom levels is answered 400; for any other, line 58
\* reads the clock for the download id.
start_download(body) ==
    /\ Len(started) < MaxRequests
    /\ started' =
         Append(started,
                IF MissingField(body) \/ InvalidZoomLevels(body)
                THEN Answered(400, << >>)
                ELSE [Answered(0, DownloadId(body.outputName, Seconds(now)))
                        EXCEPT !.at = "d_clock"])
    /\ NotAQuery
    /\ UNCHANGED <<now, active_downloads, download_results, worker, app>>

\* The handler of request n is at the step.
Handling(n, step) == n \in 1..Len(started) /\ started[n].at = step

\* Line 85: time.time(), read again for started_at.
d_clock(n) ==
    /\ Handling(n, "d_clock")
    /\ started' = [started EXCEPT ![n].started_at = now, ![n].at = "d_store"]
    /\ NotAQuery
    /\ UNCHANGED <<now, active_downloads, download_results, worker, app>>

\* Lines 83-86: the entry is stored in active_downloads, over an entry that
\* is there under the id.
d_store(n) ==
    /\ Handling(n, "d_store")
    /\ active_downloads' =
         Stored(active_downloads, started[n].download_id,
                [status |-> "downloading", started_at |-> started[n].started_at])
    /\ started' = [started EXCEPT ![n].started_at = 0, ![n].at = "d_thread"]
    /\ NotAQuery
    /\ UNCHANGED <<now, download_results, worker, app>>

\* Lines 89-91: the thread is started.
d_thread(n) ==
    /\ Handling(n, "d_thread")
    /\ worker' = [worker EXCEPT ![n] = "run"]
    /\ started' = [started EXCEPT ![n].at = "d_reply"]
    /\ NotAQuery
    /\ UNCHANGED <<now, active_downloads, download_results, app>>

\* Lines 93-98: the id is returned.
d_reply(n) ==
    /\ Handling(n, "d_reply")
    /\ started' = [started EXCEPT ![n].code = 200, ![n].at = "done"]
    /\ NotAQuery
    /\ UNCHANGED <<now, active_downloads, download_results, worker, app>>

\* The steps of download_mbtiles of flask_server.py after line 58.
Download(n) == d_clock(n) \/ d_store(n) \/ d_thread(n) \/ d_reply(n)

WorkerId(n) == started[n].download_id

\* Lines 63-71, or 74-78 when download_tiles raises: the result is stored.
w_run(n) ==
    /\ worker[n] = "run"
    /\ \/ \E result \in DownloadReturns :
            /\ download_results' = Stored(download_results, WorkerId(n), result)
            /\ worker' = [worker EXCEPT ![n] = "check"]
       \/ /\ download_results' = Stored(download_results, WorkerId(n), DownloadRaised)
          /\ worker' = [worker EXCEPT ![n] = "x_check"]
    /\ NotAQuery
    /\ UNCHANGED <<now, active_downloads, started, app>>

\* Line 72: if download_id in active_downloads.
w_check(n) ==
    /\ worker[n] = "check"
    /\ worker' = [worker EXCEPT ![n] =
                    IF WorkerId(n) \in DOMAIN active_downloads THEN "del" ELSE "done"]
    /\ NotAQuery
    /\ UNCHANGED <<now, active_downloads, download_results, started, app>>

\* Line 73: del active_downloads[download_id]; a KeyError, when another thread
\* has removed the entry since line 72, is caught at line 74 and lines 75-78
\* store a failure.
w_del(n) ==
    /\ worker[n] = "del"
    /\ IF WorkerId(n) \in DOMAIN active_downloads
       THEN /\ active_downloads' = Deleted(active_downloads, WorkerId(n))
            /\ worker' = [worker EXCEPT ![n] = "done"]
            /\ UNCHANGED download_results
       ELSE /\ download_results' = Stored(download_results, WorkerId(n), KeyErrorResult)
            /\ worker' = [worker EXCEPT ![n] = "x_check"]
            /\ UNCHANGED active_downloads
    /\ NotAQuery
    /\ UNCHANGED <<now, started, app>>

\* Line 79.
w_x_check(n) ==
    /\ worker[n] = "x_check"
    /\ worker' = [worker EXCEPT ![n] =
                    IF WorkerId(n) \in DOMAIN active_downloads THEN "x_del" ELSE "done"]
    /\ NotAQuery
    /\ UNCHANGED <<now, active_downloads, download_results, started, app>>

\* Line 80: del in the except block; a KeyError here ends the thread.
w_x_del(n) ==
    /\ worker[n] = "x_del"
    /\ active_downloads' =
         IF WorkerId(n) \in DOMAIN active_downloads
         THEN Deleted(active_downloads, WorkerId(n)) ELSE active_downloads
    /\ worker' = [worker EXCEPT ![n] = "done"]
    /\ NotAQuery
    /\ UNCHANGED <<now, download_results, started, app>>

Worker(n) == w_run(n) \/ w_check(n) \/ w_del(n) \/ w_x_check(n) \/ w_x_del(n)

\* Lines 113-125: what download_status makes of a result; "error" is the
\* exception of line 114 on a value without 'success', answered 500.
ResultStatus(result) ==
    IF ~result.has_success THEN "error"
    ELSE IF result.success THEN "completed" ELSE "failed"

\* Lines 107-127: what download_status reports for an id when no other step
\* comes between its tests.
ReportedStatus(active, results, id) ==
    IF id \in DOMAIN active THEN "downloading"
    ELSE IF id \in DOMAIN results THEN ResultStatus(results[id])
    ELSE "not found"

\* The ids a client may ask about: those returned and one that was not.
UnknownDownload == DownloadId("a", 0)
DownloadIds ==
    {started[i].download_id : i \in {k \in 1..Len(started) : started[k].code = 200}}

\* The handler holds no lock: a request or a thread can come between its two
\* membership tests and its read of the result, which are a step each.

\* Lines 104-111: GET /api/download-status/<id> arrives and the id is looked
\* for in active_downloads.
download_status(h, id) ==
    /\ query[h].pc = "none"
    /\ IF id \in DOMAIN active_downloads
       THEN /\ snap' = Snapshot(200, id, [status |-> "downloading"])
            /\ UNCHANGED query
       ELSE /\ query' = [query EXCEPT ![h] = [NoQuery EXCEPT !.pc = "s_results", !.sid = id]]
            /\ snap' = NoSnap
    /\ UNCHANGED <<now, flask_server, app>>

\* Lines 112 and 126-127: the id is looked for in download_results.
s_results(h) ==
    /\ query[h].pc = "s_results"
    /\ IF query[h].sid \in DOMAIN download_results
       THEN /\ query' = [query EXCEPT ![h].pc = "s_read"]
            /\ snap' = NoSnap
       ELSE /\ snap' = Snapshot(404, query[h].sid, [status |-> "not found"])
            /\ query' = [query EXCEPT ![h] = NoQuery]
    /\ UNCHANGED <<now, flask_server, app>>

\* Lines 113-125 and 129-130: the result is read and answered.  No result is
\* ever removed, so the one of line 112 or a later one is there.
s_read(h) ==
    /\ query[h].pc = "s_read"
    /\ LET status == ResultStatus(download_results[query[h].sid])
       IN  snap' = Snapshot(IF status = "error" THEN 500 ELSE 200, query[h].sid,
                            [status |-> status])
    /\ query' = [query EXCEPT ![h] = NoQuery]
    /\ UNCHANGED <<now, flask_server, app>>

\* The steps of download_status.
Status(h) ==
    \/ \E id \in DownloadIds \cup {UnknownDownload} : download_status(h, id)
    \/ s_results(h) \/ s_read(h)

FlaskNext ==
    \/ Tick
    \/ \E body \in DownloadBodies : start_download(body)
    \/ \E n \in Slots : Download(n) \/ Worker(n)
    \/ \E h \in Handlers : Status(h)

FlaskSpec == Init /\ [][FlaskNext]_vars

\* C31: once download_mbtiles has returned a download id, download_status for
\* that id never reports not found, and the status it reports only moves from
\* downloading to completed or failed, never back to downloading, whatever the
\* threads, the status queries and further download requests do.  A result
\* that download_status cannot read, which it answers 500, counts as no
\* status: a move to it or from it is not held against the claim.
C31_StatusNeverGoesBack ==
    /\ [](\A id \in DownloadIds :
            ReportedStatus(active_downloads, download_results, id) # "not found")
    /\ [](snap.code = 404 => snap.sid \notin DownloadIds)
    /\ [][\A id \in DownloadIds :
            LET before == ReportedStatus(active_downloads, download_results, id)
                after == ReportedStatus(active_downloads', download_results', id)
            IN  (after # before /\ before # "error" /\ after # "error")
                => before = "downloading" /\ after \in {"completed", "failed"}]_vars

====
